---- MODULE Spec2Model ----
(***************************************************************************)
(* SafeHer: the emergency-alert lifecycle (activate / resolve / false       *)
(* alarm), the notification fan-out and the emergency-contact store of the  *)
(* backend, modelled from controllers/emergencyController.js, the Mongoose  *)
(* models EmergencyAlert, EmergencyContact and User and middleware/auth.js, *)
(* and the panic button of the page (js/panic.js).                          *)
(*                                                                          *)
(* A handler is an async function: it runs up to an await, gives way, and   *)
(* goes on when the awaited call has settled. Every action of a handler is  *)
(* one awaited call taking effect followed by the code up to the next       *)
(* await (the first action also holds the code before the first await), so  *)
(* requests overlap between any two awaits.                                 *)
(*                                                                          *)
(* JSON request values are modelled by tags: "undefined" is an absent       *)
(* field, "null" is null, "0" the number 0, "3.37" / "6.52" non-zero        *)
(* numbers, "abc" a string that is not a number, "''" the empty string,     *)
(* "true" and "false" the booleans and "'false'" the string 'false'.        *)
(***************************************************************************)
EXTENDS Integers, Sequences, FiniteSets, TLC

VARIABLES
    contacts,      \* EmergencyContact collection: contact id -> document
    userContacts,  \* User.emergencyContacts: user -> sequence of contact ids
    alerts,        \* EmergencyAlert collection: sequence of documents, index = id
    userLoc,       \* User collection: the location of every user that has a document
    now,           \* Date.now(), in milliseconds since the start of the run
    nextCid,       \* next fresh contact id (ObjectIds are never reused)
    lastOp,        \* what happened last: the response sent, or the event
    accounts,      \* the users table protect reads: user id -> account state
    reqs,          \* requests in flight: slot -> the handler's position and locals
    panic,         \* the page's PanicService object, its timers and its requests
    mongoose       \* major version of the Mongoose library of the build

vars == <<contacts, userContacts, alerts, userLoc, now, nextCid, lastOp,
          accounts, panic, reqs, mongoose>>

\* what no handler of the emergency controller writes
outside == <<accounts, panic, mongoose>>

----------------------------------------------------------------------------
\* Bounds of the model

MaxContacts == 2        \* contacts of user "u1" in the initial stores of SpecDispatch
MaxAlerts == 2          \* alert records created in one run of SpecDispatch
LifecycleAlerts == 1    \* alert records created in one run of Spec
MaxTicks == 1           \* clock ticks in one run
MaxContactIds == 2      \* contact documents created in one run of SpecContacts
MaxRequests == 2        \* requests in flight at the same time

\* Program constants
TickMs == 1500        \* the clock advances in steps of a second and a half
MsPerSecond == 1000   \* divisor of the pre-save duration

\* user ids that are ObjectIds
Users == {"u1", "u2"}

\* ids of rows of the users table: `id UUID PRIMARY KEY DEFAULT gen_random_uuid()`
Uuids == {"uuid-1", "uuid-2"}

Phones == {"p1", "p2"}

Undefined == "undefined"

\* an unset Date or Number path of a document
NoTime == 0 - 1

\* The library is not pinned by the repository. Version 4 casts an array to a
\* String path with toString() and saves a removed document without an error;
\* from version 5 on an array does not cast to a String path and saving a
\* removed document rejects (DocumentNotFoundError). 5 stands for 5 and 6;
\* the handlers call Document#remove, which later versions do not have.
MongooseMajors == {4, 5}

----------------------------------------------------------------------------
\* JavaScript values of the request body

Null == "null"

EmptyString == "''"

LonInputs == {Undefined, Null, "false", "0", EmptyString, "3.37", "abc"}
LatInputs == {Undefined, Null, "false", "0", EmptyString, "6.52", "abc"}

\* !v of JavaScript: undefined, null, false, the number 0 and the empty string
\* are falsy; a non-empty string and a non-zero number are truthy
Falsy(v) == v \in {Undefined, Null, "false", "0", EmptyString}

\* the guard `!longitude || !latitude` of activatePanicButton
LocationMissing(lon, lat) == Falsy(lon) \/ Falsy(lat)

\* what the route's validators describe: present and a float
WellFormed(v) == v \in {"0", "3.37", "6.52"}

\* Mongoose casts location.coordinates to [Number]; a string that is not a
\* number makes EmergencyAlert.create reject with a validation error
CastsToNumber(v) == v \in {"0", "3.37", "6.52"}

\* Mongoose casts the `user` condition of a query and the id of findById to
\* ObjectId; a UUID does not cast and the query rejects with a CastError
CastsToObjectId(u) == u \in Users

\* alertType || 'panic'
AlertTypeOrDefault(t) == IF t = Undefined THEN "panic" ELSE t

AlertTypes == {"panic", "medical", "accident", "harassment", "other"}

Outcomes == {"safe", "assisted", "hospitalized", "unknown"}
OutcomeInputs == {Undefined, "safe", "bogus"}

\* resolution.outcome is an enum path: undefined is not validated, any other
\* value must be one of the enum's
OutcomeValid(o) == o = Undefined \/ o \in Outcomes

----------------------------------------------------------------------------
\* The contact store

Prefs(s, e, p) == [sms |-> s, email |-> e, push |-> p]

\* notificationPreferences defaults of the schema
DefaultPrefs == Prefs(TRUE, TRUE, FALSE)

NewContact(u, phone, email, isPrimary, t) ==
    [user |-> u, phone |-> phone, email |-> email, isPrimary |-> isPrimary,
     isActive |-> TRUE, notificationPreferences |-> DefaultPrefs,
     alertCount |-> 0, lastAlertSent |-> NoTime, createdAt |-> t]

Ids == DOMAIN contacts

\* mutant: the query without its sort
BeforeUnsorted(a, b) == a < b

\* sort key of getActiveContacts: { isPrimary: -1, createdAt: 1 }; documents
\* with equal keys come in insertion (id) order
Before(a, b) ==
    \/ contacts[a].isPrimary /\ ~contacts[b].isPrimary
    \/ /\ contacts[a].isPrimary = contacts[b].isPrimary
       /\ \/ contacts[a].createdAt < contacts[b].createdAt
          \/ contacts[a].createdAt = contacts[b].createdAt /\ a < b

RECURSIVE SortIds(_)
SortIds(S) ==
    IF S = {} THEN <<>>
    ELSE LET first == CHOOSE a \in S : \A b \in S \ {a} : Before(a, b)
         IN  <<first>> \o SortIds(S \ {first})

\* mutant: the query without its isActive condition
ActiveFilterAll(u) == {c \in Ids : contacts[c].user = u}

ActiveFilter(u) == {c \in Ids : contacts[c].user = u /\ contacts[c].isActive}

\* EmergencyContact.getActiveContacts(userId)
getActiveContacts(u) == SortIds(ActiveFilter(u))

\* the assignments of contact.incrementAlertCount(), before its save
incrementAlertCount(c) ==
    [c EXCEPT !.alertCount = @ + 1, !.lastAlertSent = now]

Restrict(f, S) == [x \in S |-> f[x]]

RECURSIVE SeqWithout(_, _)
SeqWithout(s, x) ==
    IF s = <<>> THEN <<>>
    ELSE IF Head(s) = x THEN SeqWithout(Tail(s), x)
         ELSE <<Head(s)>> \o SeqWithout(Tail(s), x)

Range(s) == {s[i] : i \in DOMAIN s}

\* mutant: the update applies only while the stored status is 'active'
SaveModifiedIfActive(db, local, paths) ==
    IF "status" \in DOMAIN db /\ db.status # "active"
    THEN db
    ELSE [f \in DOMAIN db |-> IF f \in paths THEN local[f] ELSE db[f]]

\* mutant: a save that sets deactivatedAt also moves the activation time to it
SaveModifiedRestarts(db, local, paths) ==
    [f \in DOMAIN db |->
        IF f = "activatedAt" /\ "deactivatedAt" \in paths
        THEN local.deactivatedAt
        ELSE IF f \in paths THEN local[f] ELSE db[f]]

\* the paths of `assigned` that count as modified: an assignment of the value
\* the path had when the document was loaded modifies nothing
Modified(loaded, local, assigned) ==
    {f \in assigned : local[f] # loaded[f]}

\* document.save() of a loaded document: the paths modified since it was
\* loaded are written over the stored document, the others are left alone
SaveModified(db, local, paths) ==
    [f \in DOMAIN db |-> IF f \in paths THEN local[f] ELSE db[f]]

----------------------------------------------------------------------------
\* Requests and responses

Resp(op, u, target, in, status, err, data) ==
    [op |-> op, user |-> u, target |-> target, in |-> in,
     status |-> status, success |-> status \in {200, 201}, err |-> err,
     data |-> data]

NoData == [alertId |-> 0, notifiedContacts |-> 0, attempts |-> {}, signal |-> 0]

\* the fields of a request body the handlers read; Undefined = not sent
NoBody == [longitude |-> Undefined, latitude |-> Undefined,
           alertType |-> Undefined, outcome |-> Undefined,
           phone |-> Undefined, isPrimary |-> Undefined,
           isActive |-> Undefined, user |-> Undefined, valid |-> Undefined]

\* a handler gave way at an await
Awaiting == Resp("await", Undefined, 0, NoBody, 0, "none", NoData)

Slots == 1..MaxRequests

\* a slot without a request; of a request in flight: pc is the await the
\* handler waits at, target the alert or contact it works on, seen the status
\* its findOne read, doc the document it loaded or built (its local copy),
\* mod the paths of it that are modified,
\* found whether User.findById returned a document, list and docs the contacts
\* getActiveContacts returned, cb the block every map callback waits in, res
\* the notificationData of every callback and settled the order in which the
\* callbacks returned
FreeRequest ==
    [pc |-> "free", op |-> Undefined, user |-> Undefined, target |-> 0,
     body |-> NoBody, seen |-> Undefined, doc |-> <<>>, mod |-> <<>>,
     found |-> FALSE,
     list |-> <<>>, docs |-> <<>>, cb |-> <<>>, res |-> <<>>, settled |-> <<>>]

\* the handler of slot s goes on to its next await with the locals q
Goes(s, q) ==
    /\ reqs' = [reqs EXCEPT ![s] = q]
    /\ lastOp' = Awaiting

\* the handler of slot s sends its response and returns
Answers(s, q, status, err, data) ==
    /\ reqs' = [reqs EXCEPT ![s] = FreeRequest]
    /\ lastOp' = Resp(q.op, q.user, q.target, q.body, status, err, data)

\* a request arrives (the controller is called with req.user set) and takes
\* the first slot without a request
Arrives(s) ==
    /\ reqs[s].pc = "free"
    /\ \A t \in DOMAIN reqs : t < s => reqs[t].pc # "free"

\* the handler of slot s waits at await pc of handler op
At(s, op, pc) == reqs[s].op = op /\ reqs[s].pc = pc

----------------------------------------------------------------------------
\* The alert store

\* mutant: rounds up instead of down
CeilSeconds(ms) == (ms + MsPerSecond - 1) \div MsPerSecond

\* Math.floor((deactivatedAt - activatedAt) / 1000) of the pre-save hook
FloorSeconds(ms) == ms \div MsPerSecond

\* emergencyAlertSchema.pre('save')
PreSave(a) ==
    IF a.deactivatedAt # NoTime /\ a.activatedAt # NoTime
    THEN [a EXCEPT !.duration = FloorSeconds(a.deactivatedAt - a.activatedAt)]
    ELSE a

NoResolution == [resolvedAt |-> NoTime, resolvedBy |-> Undefined,
                 resolutionNotes |-> Undefined, outcome |-> Undefined]

\* the document EmergencyAlert.create({user, alertType, location,
\* additionalInfo}) builds when it is called: status and activatedAt take the
\* schema's defaults, activatedAt the time of the call
NewAlert(u, alertType, lon, lat) ==
    [user |-> u, alertType |-> AlertTypeOrDefault(alertType),
     status |-> "active", coordinates |-> <<lon, lat>>,
     notifiedContacts |-> <<>>, resolution |-> NoResolution,
     activatedAt |-> now, deactivatedAt |-> NoTime, duration |-> NoTime]

\* the location user.updateLocation(longitude, latitude, address) assigns
updateLocation(lon, lat) == [coordinates |-> <<lon, lat>>, lastUpdated |-> now]

\* User.location before any update: coordinates default to [0, 0]
DefaultLocation == [coordinates |-> <<"0", "0">>, lastUpdated |-> NoTime]

----------------------------------------------------------------------------
\* POST /emergency/alert: activatePanicButton

Channels == {"sms", "email", "push"}

\* the three blocks of the map callback, in their order
ChannelOrder == <<"sms", "email", "push">>

\* the condition of the block of channel ch, on the loaded contact document
DocAttempts(doc, ch) ==
    \/ ch = "sms" /\ doc.notificationPreferences.sms
    \/ ch = "email" /\ doc.notificationPreferences.email /\ doc.email # Undefined
    \/ ch = "push" /\ doc.notificationPreferences.push

\* the block the callback waits in next, from position i of ChannelOrder on
RECURSIVE StageFrom(_, _)
StageFrom(doc, i) ==
    IF i > Len(ChannelOrder) THEN "done"
    ELSE IF DocAttempts(doc, ChannelOrder[i]) THEN ChannelOrder[i]
    ELSE StageFrom(doc, i + 1)

\* the block after channel ch
StageAfter(doc, ch) ==
    StageFrom(doc, 1 + CHOOSE i \in DOMAIN ChannelOrder : ChannelOrder[i] = ch)

ActivateIn(lon, lat, alertType) ==
    [NoBody EXCEPT !.longitude = lon, !.latitude = lat,
                   !.alertType = alertType]

\* the notificationData object a map callback starts with
NewNotificationData(c) ==
    [contact |-> c, notifiedAt |-> now, notificationMethod |-> <<>>,
     deliveryStatus |-> "pending"]

\* the SMS block once sendSMS has settled: try branch or catch branch
AfterSms(entry, ok) ==
    IF ok
    THEN [entry EXCEPT !.notificationMethod = Append(@, "sms"),
                       !.deliveryStatus = "sent"]
    ELSE [entry EXCEPT !.deliveryStatus = "failed"]

\* the email or push block once its provider call has settled
AfterOther(entry, ch, ok) ==
    IF ok THEN [entry EXCEPT !.notificationMethod = Append(@, ch)]
    ELSE entry

\* mutant: the handler goes on to the user and the notifications without
\* creating the alert
AfterLoadSkipCreate(list) == IF Len(list) = 0 THEN "free" ELSE "findingUser"

\* where the handler goes after the contacts are loaded
AfterLoad(list) == IF Len(list) = 0 THEN "free" ELSE "creating"

\* mutant: wait-for-first
SomeSettled(q) == \E c \in DOMAIN q.cb : q.cb[c] = "done"

\* Promise.all(notificationPromises) resolves: every callback has returned
AllSettled(q) == \A c \in DOMAIN q.cb : q.cb[c] = "done"

\* a callback moves to its next block; when it returns, the contact is added
\* to the order of completion
Advance(q, c, stage) ==
    [q EXCEPT !.cb[c] = stage,
              !.settled = IF stage = "done" THEN Append(@, c) ELSE @]

\* mutant: counts the contacts whose SMS was sent
NotifiedCountSent(q) ==
    Cardinality({c \in DOMAIN q.res : q.res[c].deliveryStatus = "sent"})

\* `contacts.length` of the response's notifiedContacts and of the socket
\* event's notifiedCount
NotifiedCount(q) == Len(q.list)

\* req.app.get('io'): whether the application has a socket server
IoInputs == BOOLEAN

\* notifiedContacts.notificationMethod is a String path with an enum and the
\* callback gives it an array: the array casts, to the text of its elements
\* joined by commas, only in version 4, and that text is a value of the enum
\* only when the array has one element
MethodCasts(major, m) == major = 4 /\ Len(m) = 1

\* the String the array casts to when it does
CastMethod(m) == m[1]

\* alert.notifiedContacts = notifications
OutcomeList(q) == [i \in DOMAIN q.list |-> q.res[q.list[i]]]

\* the location check, getActiveContacts and the 400 when the list is empty;
\* with contacts, EmergencyAlert.create is called and builds the document
ActLoad(s, u, lon, lat, alertType) ==
    /\ LET in == ActivateIn(lon, lat, alertType)
           q == [FreeRequest EXCEPT !.op = "activate", !.user = u, !.body = in]
           list == getActiveContacts(u)
       IN  IF LocationMissing(lon, lat)
           THEN Answers(s, q, 400, "LocationRequired", NoData)
           ELSE IF ~CastsToObjectId(u)
           THEN Answers(s, q, 500, "ServerError", NoData)
           ELSE IF AfterLoad(list) = "free"
           THEN Answers(s, q, 400, "NoContacts", NoData)
           ELSE Goes(s, [q EXCEPT
                    !.pc = AfterLoad(list), !.list = list,
                    !.doc = <<NewAlert(u, alertType, lon, lat)>>,
                    !.docs = [c \in Range(list) |-> contacts[c]]])
    /\ UNCHANGED <<contacts, userContacts, alerts, userLoc, now, nextCid,
                   outside>>

\* EmergencyAlert.create settles: a coordinate that does not cast to a number,
\* or an alert type outside the enum, rejects and the catch block answers 500;
\* otherwise the document built by the call is in the collection
ActCreate(s) ==
    /\ At(s, "activate", "creating")
    /\ LET q == reqs[s]
           in == q.body
       IN  IF ~(/\ CastsToNumber(in.longitude) /\ CastsToNumber(in.latitude)
                /\ AlertTypeOrDefault(in.alertType) \in AlertTypes)
           THEN /\ Answers(s, q, 500, "ServerError", NoData)
                /\ UNCHANGED alerts
           ELSE /\ alerts' = Append(alerts, PreSave(q.doc[1]))
                /\ Goes(s, [q EXCEPT !.pc = "findingUser",
                                     !.target = Len(alerts) + 1])
    /\ UNCHANGED <<contacts, userContacts, userLoc, now, nextCid, outside>>

\* User.findById: without a User document `user` is null and
\* user.updateLocation throws into the catch block; with one, updateLocation
\* assigns the location and starts its save
ActFindUser(s) ==
    /\ At(s, "activate", "findingUser")
    /\ LET q == reqs[s]
       IN  IF q.user \notin DOMAIN userLoc
           THEN Answers(s, q, 500, "ServerError", NoData)
           ELSE Goes(s, [q EXCEPT
                    !.pc = "locating",
                    !.doc = <<updateLocation(q.body.longitude,
                                             q.body.latitude)>>])
    /\ UNCHANGED <<contacts, userContacts, alerts, userLoc, now, nextCid,
                   outside>>

\* the save of updateLocation; then contacts.map starts every callback, which
\* runs up to its first provider call
ActLocate(s) ==
    /\ At(s, "activate", "locating")
    /\ userLoc' = [userLoc EXCEPT ![reqs[s].user] = reqs[s].doc[1]]
    /\ LET q == reqs[s]
           first == [c \in Range(q.list) |-> StageFrom(q.docs[c], 1)]
           returned == SelectSeq(q.list, LAMBDA c : first[c] = "done")
       IN  Goes(s, [q EXCEPT
                !.pc = "fanout",
                !.cb = first,
                !.settled = returned,
                !.res = [c \in Range(q.list) |-> NewNotificationData(c)]])
    /\ UNCHANGED <<contacts, userContacts, alerts, now, nextCid, outside>>

\* the paths incrementAlertCount modifies on the loaded contact document
IncrementPaths(doc) ==
    Modified(doc, incrementAlertCount(doc), {"alertCount", "lastAlertSent"})

\* sendSMS for contact c settles: on success the method and the status are
\* recorded and incrementAlertCount assigns to the loaded document and starts
\* its save; on failure the status is 'failed'
SmsSettles(s, c, ok) ==
    /\ At(s, "activate", "fanout")
    /\ c \in DOMAIN reqs[s].cb
    /\ reqs[s].cb[c] = "sms"
    /\ LET q == [reqs[s] EXCEPT !.res[c] = AfterSms(@, ok)]
       IN  Goes(s, IF ok
                   THEN [q EXCEPT
                            !.docs[c] = incrementAlertCount(@),
                            !.mod = [d \in DOMAIN @ \cup {c} |->
                                        IF d = c THEN IncrementPaths(q.docs[c])
                                        ELSE @[d]],
                            !.cb[c] = "inc"]
                   ELSE Advance(q, c, StageAfter(q.docs[c], "sms")))
    /\ UNCHANGED <<contacts, userContacts, alerts, userLoc, now, nextCid,
                   outside>>

\* the save of incrementAlertCount writes the paths it modified. When the
\* contact has been removed since it was loaded, version 4 writes nothing and
\* resolves; a later version rejects, inside the try of the SMS block, whose
\* catch sets the status to 'failed'
IncrementSaves(s, c) ==
    /\ At(s, "activate", "fanout")
    /\ c \in DOMAIN reqs[s].cb
    /\ reqs[s].cb[c] = "inc"
    /\ LET q == reqs[s]
           next == StageAfter(q.docs[c], "sms")
       IN  IF c \in DOMAIN contacts
           THEN /\ contacts' = [contacts EXCEPT ![c] =
                        SaveModified(@, q.docs[c], q.mod[c])]
                /\ Goes(s, Advance(q, c, next))
           ELSE /\ UNCHANGED contacts
                /\ Goes(s, Advance(
                        IF mongoose = 4 THEN q
                        ELSE [q EXCEPT !.res[c].deliveryStatus = "failed"],
                        c, next))
    /\ UNCHANGED <<userContacts, alerts, userLoc, now, nextCid, outside>>

\* sendEmail or sendPushNotification for contact c settles: on success the
\* method is recorded, on failure nothing is
OtherSettles(s, c, ok) ==
    /\ At(s, "activate", "fanout")
    /\ c \in DOMAIN reqs[s].cb
    /\ reqs[s].cb[c] \in {"email", "push"}
    /\ LET q == reqs[s]
           ch == q.cb[c]
       IN  Goes(s, Advance([q EXCEPT !.res[c] = AfterOther(@, ch, ok)],
                           c, StageAfter(q.docs[c], ch)))
    /\ UNCHANGED <<contacts, userContacts, alerts, userLoc, now, nextCid,
                   outside>>

\* after Promise.all: alert.notifiedContacts = notifications; alert.save().
\* The save validates the outcome list: when the method of some entry does not
\* cast it rejects, nothing is written and the catch block answers 500.
\* Otherwise the list is written, the socket event is emitted when the
\* application has a socket server, and the 201 is sent.
ActStore(s, io) ==
    /\ At(s, "activate", "fanout")
    /\ AllSettled(reqs[s])
    /\ LET q == reqs[s]
           list == OutcomeList(q)
           cast == [i \in DOMAIN list |->
                        [list[i] EXCEPT !.notificationMethod = CastMethod(@)]]
       IN  IF \A i \in DOMAIN list :
                    MethodCasts(mongoose, list[i].notificationMethod)
           THEN \* the pre-save hook finds no deactivatedAt on the document
                \* the create returned and assigns nothing
                /\ alerts' = [alerts EXCEPT ![q.target] =
                        SaveModified(@, [@ EXCEPT !.notifiedContacts = cast],
                                     {"notifiedContacts"})]
                /\ Answers(s, q, 201, "none",
                       [alertId |-> q.target,
                        notifiedContacts |-> NotifiedCount(q),
                        attempts |-> {},
                        signal |-> IF io THEN NotifiedCount(q) ELSE 0])
           ELSE /\ UNCHANGED alerts
                /\ Answers(s, q, 500, "ServerError", NoData)
    /\ UNCHANGED <<contacts, userContacts, userLoc, now, nextCid, outside>>

\* alert records there are or will be: those stored and those of the
\* activations that wait for their create
AlertsPlanned ==
    Len(alerts)
        + Cardinality({s \in DOMAIN reqs : At(s, "activate", "creating")})

----------------------------------------------------------------------------
\* PUT /emergency/alerts/:id/resolve and /false-alarm

\* the ids a request may name: those of the alerts there can be, and one more
AlertIds == 1..(LifecycleAlerts + 1)

\* EmergencyAlert.findOne({ _id, user })
FindAlert(id, u) == id \in DOMAIN alerts /\ alerts[id].user = u

\* the assignments of emergencyAlertSchema.methods.resolveAlert, before its save
resolveAlert(a, resolvedBy, outcome, notes) ==
    [a EXCEPT !.status = "resolved",
              !.resolution = [resolvedAt |-> now, resolvedBy |-> resolvedBy,
                              resolutionNotes |-> notes, outcome |-> outcome],
              !.deactivatedAt = now]

\* the assignments of emergencyAlertSchema.methods.markAsFalseAlarm, before
\* its save
markAsFalseAlarm(a) ==
    [a EXCEPT !.status = "false-alarm", !.deactivatedAt = now]

\* the status guard of the resolve handler
NotActive(a) == a.status # "active"

\* the paths alert.resolveAlert and the pre-save hook assign
ResolvePaths == {"status", "resolution", "deactivatedAt", "duration"}

\* the paths alert.markAsFalseAlarm and the pre-save hook assign
FalseAlarmPaths == {"status", "deactivatedAt", "duration"}

\* EmergencyContact.find({ _id: { $in: notifiedContacts.map(nc => nc.contact) } })
\* on the loaded alert, narrowed by the forEach to the contacts whose SMS
\* preference is set
ResolutionRecipients(a) ==
    {c \in Ids : /\ \E i \in DOMAIN a.notifiedContacts :
                        a.notifiedContacts[i].contact = c
                 /\ contacts[c].notificationPreferences.sms}

\* resolveAlert up to the save inside alert.resolveAlert: findOne, the 404,
\* the status check, the assignments to the loaded document and those of the
\* pre-save hook
ResolveFind(s, u, id, outcome) ==
    /\ LET q == [FreeRequest EXCEPT
                    !.op = "resolve", !.user = u, !.target = id,
                    !.body = [NoBody EXCEPT !.outcome = outcome]]
       IN  IF ~CastsToObjectId(u)
           THEN Answers(s, q, 500, "ServerError", NoData)
           ELSE IF ~FindAlert(id, u)
           THEN Answers(s, q, 404, "NotFound", NoData)
           ELSE IF NotActive(alerts[id])
           THEN Answers(s, q, 400, "NotActive", NoData)
           ELSE LET local == PreSave(resolveAlert(alerts[id], u, outcome,
                                                  Undefined))
                IN  Goes(s, [q EXCEPT
                        !.pc = "saving", !.seen = alerts[id].status,
                        !.doc = <<local>>,
                        !.mod = <<Modified(alerts[id], local, ResolvePaths)>>])
    /\ UNCHANGED <<contacts, userContacts, alerts, userLoc, now, nextCid,
                   outside>>

\* the save inside alert.resolveAlert: an outcome outside the enum fails the
\* validation, nothing is written and the catch block answers 500; otherwise
\* the modified paths are written
ResolveSave(s) ==
    /\ At(s, "resolve", "saving")
    /\ LET q == reqs[s]
           local == q.doc[1]
       IN  IF ~OutcomeValid(local.resolution.outcome)
           THEN /\ Answers(s, q, 500, "ServerError", NoData)
                /\ UNCHANGED alerts
           ELSE /\ alerts' = [alerts EXCEPT ![q.target] =
                        SaveModified(@, local, q.mod[1])]
                /\ Goes(s, [q EXCEPT !.pc = "findingUser"])
    /\ UNCHANGED <<contacts, userContacts, userLoc, now, nextCid, outside>>

\* User.findById of resolveAlert
ResolveFindUser(s) ==
    /\ At(s, "resolve", "findingUser")
    /\ Goes(s, [reqs[s] EXCEPT !.pc = "findingContacts",
                               !.found = reqs[s].user \in DOMAIN userLoc])
    /\ UNCHANGED <<contacts, userContacts, alerts, userLoc, now, nextCid,
                   outside>>

\* EmergencyContact.find of resolveAlert and the rest of the handler: without
\* a User document `user.name` throws and the catch block answers 500, after
\* the alert was written; with one, the forEach calls sendSMS for every
\* contact found whose SMS preference is set, waits for none of them, and the
\* 200 is sent
ResolveNotify(s) ==
    /\ At(s, "resolve", "findingContacts")
    /\ LET q == reqs[s]
           to == ResolutionRecipients(q.doc[1])
       IN  IF ~q.found
           THEN Answers(s, q, 500, "ServerError", NoData)
           ELSE Answers(s, q, 200, "none",
                    [alertId |-> q.target, notifiedContacts |-> 0,
                     attempts |-> {<<c, "sms">> : c \in to}, signal |-> 0])
    /\ UNCHANGED <<contacts, userContacts, alerts, userLoc, now, nextCid,
                   outside>>

\* markFalseAlarm up to the save inside alert.markAsFalseAlarm: findOne, the
\* 404, the assignments to the loaded document and those of the pre-save
\* hook. There is no status check: on an alert that is a false alarm already
\* the assignment of the status modifies nothing
FalseAlarmFind(s, u, id) ==
    /\ LET q == [FreeRequest EXCEPT
                    !.op = "falseAlarm", !.user = u, !.target = id]
       IN  IF ~CastsToObjectId(u)
           THEN Answers(s, q, 500, "ServerError", NoData)
           ELSE IF ~FindAlert(id, u)
           THEN Answers(s, q, 404, "NotFound", NoData)
           ELSE LET local == PreSave(markAsFalseAlarm(alerts[id]))
                IN  Goes(s, [q EXCEPT
                        !.pc = "saving", !.seen = alerts[id].status,
                        !.doc = <<local>>,
                        !.mod = <<Modified(alerts[id], local,
                                           FalseAlarmPaths)>>])
    /\ UNCHANGED <<contacts, userContacts, alerts, userLoc, now, nextCid,
                   outside>>

\* the save inside alert.markAsFalseAlarm writes the modified paths; then the
\* response
FalseAlarmSave(s) ==
    /\ At(s, "falseAlarm", "saving")
    /\ LET q == reqs[s]
       IN  /\ alerts' = [alerts EXCEPT ![q.target] =
                    SaveModified(@, q.doc[1], q.mod[1])]
           /\ Answers(s, q, 200, "none",
                  [alertId |-> q.target, notifiedContacts |-> 0,
                   attempts |-> {}, signal |-> 0])
    /\ UNCHANGED <<contacts, userContacts, userLoc, now, nextCid, outside>>

\* the clock advances, also while requests are in flight
Tick ==
    /\ now < MaxTicks * TickMs
    /\ now' = now + TickMs
    /\ lastOp' = Resp("tick", Undefined, 0, NoBody, 0, "none", NoData)
    /\ UNCHANGED <<contacts, userContacts, alerts, userLoc, nextCid, reqs,
                   outside>>

----------------------------------------------------------------------------
\* GET /emergency/alerts?limit=...: getAlertHistory

\* req.query.limit: absent, or the text of the query parameter
LimitInputs == {Undefined, "0", "1", "2", "-1", "abc"}

\* parseInt(v) is NaN
ParseIntIsNaN(v) == v \in {Undefined, "abc"}

\* parseInt(v) where it is a number
ParseInt(v) ==
    CASE v = "0" -> 0
      [] v = "1" -> 1
      [] v = "2" -> 2
      [] v = "-1" -> 0 - 1

DefaultLimit == 10

\* parseInt(req.query.limit) || 10: NaN and 0 are falsy
LimitOrDefault(v) ==
    IF ParseIntIsNaN(v) THEN DefaultLimit
    ELSE IF ParseInt(v) = 0 THEN DefaultLimit
    ELSE ParseInt(v)

\* sort({ activatedAt: -1 }); documents with equal keys come in insertion order
AlertBefore(a, b) ==
    \/ alerts[a].activatedAt > alerts[b].activatedAt
    \/ alerts[a].activatedAt = alerts[b].activatedAt /\ a < b

RECURSIVE SortAlerts(_)
SortAlerts(S) ==
    IF S = {} THEN <<>>
    ELSE LET first == CHOOSE a \in S : \A b \in S \ {a} : AlertBefore(a, b)
         IN  <<first>> \o SortAlerts(S \ {first})

\* cursor.limit(n): the first |n| documents (a negative limit is a limit of
\* its absolute value answered in one batch), all of them when n is 0
CursorLimit(list, n) ==
    LET k == IF n < 0 THEN 0 - n ELSE n
    IN  IF k = 0 \/ k >= Len(list) THEN list ELSE SubSeq(list, 1, k)

\* EmergencyAlert.getUserAlertHistory(userId, limit)
getUserAlertHistory(u, limit) ==
    CursorLimit(SortAlerts({id \in DOMAIN alerts : alerts[id].user = u}), limit)

\* getAlertHistory: one await, the query, and the response
ListHistory(s, u, limit) ==
    /\ LET list == getUserAlertHistory(u, LimitOrDefault(limit))
       IN  /\ reqs' = [reqs EXCEPT ![s] = FreeRequest]
           /\ lastOp' =
                IF CastsToObjectId(u)
                THEN Resp("listHistory", u, 0, [limit |-> limit], 200, "none",
                          [count |-> Len(list), data |-> list])
                ELSE Resp("listHistory", u, 0, [limit |-> limit], 500,
                          "ServerError", NoData)
    /\ UNCHANGED <<contacts, userContacts, alerts, userLoc, now, nextCid,
                   outside>>

\* getActiveAlerts: one await, the query, and the response
ListActive(s, u) ==
    /\ LET list == SelectSeq([i \in DOMAIN alerts |-> i],
                             LAMBDA id : /\ alerts[id].user = u
                                         /\ alerts[id].status = "active")
       IN  /\ reqs' = [reqs EXCEPT ![s] = FreeRequest]
           /\ lastOp' =
                IF CastsToObjectId(u)
                THEN Resp("listActive", u, 0, NoBody, 200, "none",
                          [count |-> Len(list), data |-> list])
                ELSE Resp("listActive", u, 0, NoBody, 500, "ServerError",
                          NoData)
    /\ UNCHANGED <<contacts, userContacts, alerts, userLoc, now, nextCid,
                   outside>>

----------------------------------------------------------------------------
\* The page: PanicService of js/panic.js, the timers it sets and the requests
\* it sends. Time on the page is counted in seconds.

MaxSeconds == 13
MaxPresses == 2

\* holdDuration: 3000, and the initial value of countdown
HoldSeconds == 3

\* the period of the countdown interval: 1000
CountdownSeconds == 1

\* setTimeout(() => this.resetPanicButton(), 5000)
ResetSeconds == 5

\* setTimeout(() => this.closeConfirmation(), 10000)
CloseSeconds == 10

\* no timer: `null` in holdTimer and countdownInterval
NoTimer == 0

\* the PanicService object at page load, the button and the document; timers
\* and intervals are the pending setTimeout and setInterval callbacks by id,
\* `left` the seconds until they are due, `released` whether cancelHold ran
\* since the timer was set; fetches counts the calls of sendPanicAlert that
\* have not returned, parsing holds the status of every response among them
\* whose body is being read
PanicIdle ==
    [isActive |-> FALSE, holdTimer |-> NoTimer, countdownInterval |-> NoTimer,
     countdown |-> HoldSeconds, label |-> "HOLD FOR 3 SECONDS", overlays |-> 0,
     timers |-> <<>>, intervals |-> <<>>, fetches |-> 0, parsing |-> <<>>,
     clock |-> 0, nextId |-> 1, presses |-> 0]

\* what the page did last
PageEvent(op, target, status, err) ==
    Resp(op, Undefined, target, NoBody, status, err, NoData)

PageStep == UNCHANGED <<contacts, userContacts, alerts, userLoc, now, nextCid,
                        accounts, reqs, mongoose>>

\* setTimeout(callback, seconds): the timers with one more under the next id
SetTimeout(timers, id, kind, seconds) ==
    [t \in DOMAIN timers \cup {id} |->
        IF t = id THEN [kind |-> kind, left |-> seconds, released |-> FALSE]
        ELSE timers[t]]

\* clearTimeout(id) and clearInterval(id): a null or stale id clears nothing
Clear(pending, id) == Restrict(pending, DOMAIN pending \ {id})

\* startHold: the timer and the interval of an earlier press stay pending when
\* their ids are overwritten
startHold ==
    /\ panic.presses < MaxPresses
    /\ IF panic.isActive
       THEN panic' = [panic EXCEPT !.presses = @ + 1]
       ELSE LET i == panic.nextId
                t == panic.nextId + 1
            IN  panic' = [panic EXCEPT
                    !.presses = @ + 1,
                    !.countdown = HoldSeconds,
                    !.intervals =
                        [x \in DOMAIN @ \cup {i} |->
                            IF x = i THEN [left |-> CountdownSeconds] ELSE @[x]],
                    !.countdownInterval = i,
                    !.timers = SetTimeout(@, t, "hold", HoldSeconds),
                    !.holdTimer = t,
                    !.nextId = @ + 2]
    /\ lastOp' = PageEvent("press", 0, 0, "none")
    /\ PageStep

\* cancelHold
cancelHold ==
    /\ panic' = [panic EXCEPT
            !.timers = [t \in DOMAIN Clear(@, panic.holdTimer) |->
                            [@[t] EXCEPT !.released = TRUE]],
            !.holdTimer = NoTimer,
            !.intervals = Clear(@, panic.countdownInterval),
            !.countdownInterval = NoTimer,
            !.countdown = HoldSeconds]
    /\ lastOp' = PageEvent("release", 0, 0, "none")
    /\ PageStep

\* the callback of the countdown interval
CountdownTick(i) ==
    /\ i \in DOMAIN panic.intervals
    /\ panic.intervals[i].left = 0
    /\ LET rearmed == [panic.intervals EXCEPT ![i].left = CountdownSeconds]
       IN  panic' = [panic EXCEPT
                !.countdown = @ - 1,
                !.intervals = IF panic.countdown - 1 <= 0
                              THEN Clear(rearmed, panic.countdownInterval)
                              ELSE rearmed]
    /\ lastOp' = PageEvent("countdown", i, 0, "none")
    /\ PageStep

\* showActivationConfirmation followed by the setTimeout of resetPanicButton:
\* the end of activatePanic
ConfirmAndScheduleReset(p) ==
    [p EXCEPT
        !.overlays = @ + 1,
        !.timers = SetTimeout(SetTimeout(@, p.nextId, "close", CloseSeconds),
                              p.nextId + 1, "reset", ResetSeconds),
        !.nextId = @ + 2]

\* the hold timer's callback: activatePanic up to its await. Without a token
\* sendPanicAlert returns at once and activatePanic runs to its end; with a
\* token the request is sent.
HoldFires(t, token) ==
    /\ t \in DOMAIN panic.timers
    /\ panic.timers[t].kind = "hold"
    /\ panic.timers[t].left = 0
    /\ LET activated == [panic EXCEPT !.timers = Clear(@, t),
                                      !.isActive = TRUE,
                                      !.label = "ALERT SENT!"]
       IN  IF token
           THEN /\ panic' = [activated EXCEPT !.fetches = @ + 1]
                /\ lastOp' = PageEvent("activatePanic", t, 0, "none")
           ELSE /\ panic' = ConfirmAndScheduleReset(activated)
                /\ lastOp' = PageEvent("activatePanic", t, 0, "NoToken")
    /\ PageStep

\* the answers to the request: response.ok, an error status, or a fetch that
\* rejects (status 0)
FetchOutcomes == {201, 500, 0}

\* the sequence without its element i
WithoutIndex(seq, i) ==
    [j \in 1..(Len(seq) - 1) |-> IF j < i THEN seq[j] ELSE seq[j + 1]]

\* `await fetch(...)` settles: a fetch that rejects is thrown on to
\* activatePanic, which runs to its end; with a response, response.json() is
\* called
FetchSettles(status) ==
    /\ panic.fetches > Len(panic.parsing)
    /\ IF status = 0
       THEN /\ panic' = ConfirmAndScheduleReset(
                            [panic EXCEPT !.fetches = @ - 1])
            /\ lastOp' = PageEvent("sendSettled", 0, 0, "SendFailed")
       ELSE /\ panic' = [panic EXCEPT !.parsing = Append(@, status)]
            /\ lastOp' = PageEvent("responded", 0, status, "none")
    /\ PageStep

\* `await response.json()` settles for the response at position i: the rest
\* of sendPanicAlert, which throws when the body does not parse or the
\* response is not ok, and of activatePanic
JsonSettles(i, parsed) ==
    /\ i \in DOMAIN panic.parsing
    /\ panic' = ConfirmAndScheduleReset(
                    [panic EXCEPT !.fetches = @ - 1,
                                  !.parsing = WithoutIndex(@, i)])
    /\ lastOp' = PageEvent("sendSettled", 0, panic.parsing[i],
                           IF parsed /\ panic.parsing[i] = 201
                           THEN "none" ELSE "SendFailed")
    /\ PageStep

\* resetPanicButton, run by its timer
ResetFires(t) ==
    /\ t \in DOMAIN panic.timers
    /\ panic.timers[t].kind = "reset"
    /\ panic.timers[t].left = 0
    /\ panic' = [panic EXCEPT !.timers = Clear(@, t),
                              !.isActive = FALSE,
                              !.label = "HOLD FOR 3 SECONDS"]
    /\ lastOp' = PageEvent("reset", t, 0, "none")
    /\ PageStep

\* closeConfirmation removes one #panicConfirmation element if there is one
closeConfirmation(p) ==
    [p EXCEPT !.overlays = IF @ > 0 THEN @ - 1 ELSE 0]

\* closeConfirmation, run by its timer
CloseFires(t) ==
    /\ t \in DOMAIN panic.timers
    /\ panic.timers[t].kind = "close"
    /\ panic.timers[t].left = 0
    /\ panic' = closeConfirmation([panic EXCEPT !.timers = Clear(@, t)])
    /\ lastOp' = PageEvent("close", t, 0, "none")
    /\ PageStep

\* the Close button of a confirmation (onclick="PanicService.closeConfirmation()"):
\* the timer showActivationConfirmation set stays pending
CloseClicked ==
    /\ panic.overlays > 0
    /\ panic' = closeConfirmation(panic)
    /\ lastOp' = PageEvent("closeClicked", 0, 0, "none")
    /\ PageStep

\* the Call button of a confirmation: callEmergency. With a contact in
\* SafeHerApp.emergencyContacts it opens the tel: link and closes the
\* confirmation, without one it only shows a toast
callEmergency(hasContacts) ==
    /\ panic.overlays > 0
    /\ panic' = IF hasContacts THEN closeConfirmation(panic) ELSE panic
    /\ lastOp' = PageEvent("call", 0, 0,
                           IF hasContacts THEN "none" ELSE "NoContacts")
    /\ PageStep

\* a second passes; callbacks that are due run first
Elapse ==
    /\ panic.clock < MaxSeconds
    /\ \A t \in DOMAIN panic.timers : panic.timers[t].left > 0
    /\ \A i \in DOMAIN panic.intervals : panic.intervals[i].left > 0
    /\ panic' = [panic EXCEPT
            !.clock = @ + 1,
            !.timers = [t \in DOMAIN @ |-> [@[t] EXCEPT !.left = @ - 1]],
            !.intervals = [i \in DOMAIN @ |-> [@[i] EXCEPT !.left = @ - 1]]]
    /\ lastOp' = PageEvent("second", 0, 0, "none")
    /\ PageStep

TimerIds == 1..(4 * MaxPresses)

CountdownTickAny == \E i \in TimerIds : CountdownTick(i)

HoldFiresAny == \E t \in TimerIds, token \in BOOLEAN : HoldFires(t, token)

FetchSettlesAny == \E status \in FetchOutcomes : FetchSettles(status)

JsonSettlesAny ==
    \E i \in 1..MaxPresses, parsed \in BOOLEAN : JsonSettles(i, parsed)

ResetFiresAny == \E t \in TimerIds : ResetFires(t)

CloseFiresAny == \E t \in TimerIds : CloseFires(t)

callEmergencyAny == \E hasContacts \in BOOLEAN : callEmergency(hasContacts)

----------------------------------------------------------------------------
\* The contact handlers: POST / GET / PUT / DELETE /emergency/contacts

\* the string 'false' of a JSON body
StringFalse == "'false'"

\* values of isPrimary and isActive in a body: absent, the booleans, and a
\* string that a Boolean path casts to false
BoolInputs == {Undefined, "true", "false", StringFalse}

\* `if (isPrimary)`: undefined and false are falsy, a non-empty string is
\* truthy
Truthy(v) == v \in {"true", StringFalse}

\* the cast of a Boolean path: true stays true; false and the string 'false'
\* become false
CastBoolean(v) == v = "true"

\* isPrimary of POST /contacts
PrimaryInputs == {Undefined, "true", StringFalse}

ContactIds == 1..MaxContactIds

\* mutant: the lookup without its user condition
PhoneTakenByAnyone(u, phone) == \E c \in Ids : contacts[c].phone = phone

\* EmergencyContact.findOne({ user, phone })
PhoneTaken(u, phone) ==
    \E c \in Ids : contacts[c].user = u /\ contacts[c].phone = phone

\* EmergencyContact.updateMany({ user, isPrimary: true }, { isPrimary: false })
ClearPrimary(u) ==
    [c \in Ids |->
        IF contacts[c].user = u /\ contacts[c].isPrimary
        THEN [contacts[c] EXCEPT !.isPrimary = FALSE]
        ELSE contacts[c]]

\* EmergencyContact.updateMany({ user, _id: { $ne: id }, isPrimary: true },
\*                             { isPrimary: false })
ClearOtherPrimary(u, id) ==
    [c \in Ids |->
        IF contacts[c].user = u /\ c # id /\ contacts[c].isPrimary
        THEN [contacts[c] EXCEPT !.isPrimary = FALSE]
        ELSE contacts[c]]

\* the document findByIdAndUpdate(id, req.body) writes: every field of the body
\* that is a path of the schema replaces the document's
ApplyPatch(c, patch) ==
    [c EXCEPT
        !.phone = IF patch.phone # Undefined THEN patch.phone ELSE @,
        !.isPrimary = IF patch.isPrimary # Undefined
                      THEN CastBoolean(patch.isPrimary) ELSE @,
        !.isActive = IF patch.isActive # Undefined
                     THEN CastBoolean(patch.isActive) ELSE @,
        !.user = IF patch.user # Undefined THEN patch.user ELSE @]

\* mutant: a collection without the unique index
IndexClashNever(store, id, doc) == FALSE

\* the unique index { user: 1, phone: 1 }: another document has the pair
IndexClash(store, id, doc) ==
    \E c \in DOMAIN store :
        c # id /\ store[c].user = doc.user /\ store[c].phone = doc.phone

\* mutant: the insert also takes the primary flag from the owner's other
\* contacts
InsertSolePrimary(store, id, doc) ==
    [c \in DOMAIN store \cup {id} |->
        IF c = id THEN doc
        ELSE IF doc.isPrimary /\ store[c].user = doc.user
             THEN [store[c] EXCEPT !.isPrimary = FALSE]
             ELSE store[c]]

\* EmergencyContact.create(doc): the collection with the new document
Insert(store, id, doc) ==
    [c \in DOMAIN store \cup {id} |-> IF c = id THEN doc ELSE store[c]]

\* User.findByIdAndUpdate(id, ...) finds a document to update
HasUserDocument(u) == u \in DOMAIN userLoc

\* the document EmergencyContact.create builds when addEmergencyContact calls
\* it: isPrimary is cast, createdAt is the time of the call
ContactOf(q) ==
    NewContact(q.user, q.body.phone, Undefined, CastBoolean(q.body.isPrimary),
               now)

\* addEmergencyContact up to its first write: findOne and the duplicate
\* answer; with a truthy isPrimary the updateMany comes first, otherwise
\* EmergencyContact.create is called. `valid` tells whether name, phone and
\* relation pass the schema's validators
AddFind(s, u, phone, isPrimary, valid) ==
    /\ LET q == [FreeRequest EXCEPT
                    !.op = "addContact", !.user = u,
                    !.body = [NoBody EXCEPT !.phone = phone,
                                            !.isPrimary = isPrimary,
                                            !.valid = valid]]
       IN  IF ~CastsToObjectId(u)
           THEN Answers(s, q, 500, "ServerError", NoData)
           ELSE IF PhoneTaken(u, phone)
           THEN Answers(s, q, 400, "Duplicate", NoData)
           ELSE IF Truthy(isPrimary)
           THEN Goes(s, [q EXCEPT !.pc = "clearing"])
           ELSE Goes(s, [q EXCEPT !.pc = "writing", !.doc = <<ContactOf(q)>>])
    /\ UNCHANGED <<contacts, userContacts, alerts, userLoc, now, nextCid,
                   outside>>

\* the updateMany of addEmergencyContact settles and EmergencyContact.create
\* is called
AddClear(s) ==
    /\ At(s, "addContact", "clearing")
    /\ contacts' = ClearPrimary(reqs[s].user)
    /\ Goes(s, [reqs[s] EXCEPT !.pc = "writing",
                               !.doc = <<ContactOf(reqs[s])>>])
    /\ UNCHANGED <<userContacts, alerts, userLoc, now, nextCid, outside>>

\* EmergencyContact.create of addEmergencyContact settles: a body that fails
\* the validators, or a document the unique index rejects, is answered 500;
\* otherwise the document built by the call is in the collection
AddCreate(s) ==
    /\ At(s, "addContact", "writing")
    /\ LET q == reqs[s]
           doc == q.doc[1]
       IN  IF q.body.valid # "true" \/ IndexClash(contacts, nextCid, doc)
           THEN /\ Answers(s, q, 500, "ServerError", NoData)
                /\ UNCHANGED <<contacts, nextCid>>
           ELSE /\ contacts' = Insert(contacts, nextCid, doc)
                /\ nextCid' = nextCid + 1
                /\ Goes(s, [q EXCEPT !.pc = "attaching", !.target = nextCid])
    /\ UNCHANGED <<userContacts, alerts, userLoc, now, outside>>

\* the $push on the user, which updates nothing when the user has no User
\* document, and the 201
AddAttach(s) ==
    /\ At(s, "addContact", "attaching")
    /\ userContacts' =
            IF HasUserDocument(reqs[s].user)
            THEN [userContacts EXCEPT ![reqs[s].user] =
                        Append(@, reqs[s].target)]
            ELSE userContacts
    /\ Answers(s, reqs[s], 201, "none", NoData)
    /\ UNCHANGED <<contacts, alerts, userLoc, now, nextCid, outside>>

\* contact documents there are or will be
ContactsPlanned ==
    nextCid - 1
        + Cardinality({s \in DOMAIN reqs :
                          \/ At(s, "addContact", "clearing")
                          \/ At(s, "addContact", "writing")})

\* updateEmergencyContact up to its first write: findOne and the 404
UpdateFind(s, u, id, patch) ==
    /\ LET q == [FreeRequest EXCEPT
                    !.op = "updateContact", !.user = u, !.target = id,
                    !.body = patch]
       IN  IF ~CastsToObjectId(u)
           THEN Answers(s, q, 500, "ServerError", NoData)
           ELSE IF ~(id \in Ids /\ contacts[id].user = u)
           THEN Answers(s, q, 404, "NotFound", NoData)
           ELSE Goes(s, [q EXCEPT !.pc = IF Truthy(patch.isPrimary)
                                         THEN "clearing" ELSE "writing"])
    /\ UNCHANGED <<contacts, userContacts, alerts, userLoc, now, nextCid,
                   outside>>

\* the updateMany of updateEmergencyContact
UpdateClear(s) ==
    /\ At(s, "updateContact", "clearing")
    /\ contacts' = ClearOtherPrimary(reqs[s].user, reqs[s].target)
    /\ Goes(s, [reqs[s] EXCEPT !.pc = "writing"])
    /\ UNCHANGED <<userContacts, alerts, userLoc, now, nextCid, outside>>

\* findByIdAndUpdate(req.params.id, req.body) and the response: a contact
\* that has been removed since the findOne gives null and the answer is 200
\* with data null; a document the unique index rejects is answered 500
UpdateWrite(s) ==
    /\ At(s, "updateContact", "writing")
    /\ LET q == reqs[s]
           id == q.target
       IN  IF id \notin Ids
           THEN /\ Answers(s, q, 200, "none", "null")
                /\ UNCHANGED contacts
           ELSE IF IndexClash(contacts, id, ApplyPatch(contacts[id], q.body))
           THEN /\ Answers(s, q, 500, "ServerError", NoData)
                /\ UNCHANGED contacts
           ELSE /\ contacts' = [contacts EXCEPT ![id] = ApplyPatch(@, q.body)]
                /\ Answers(s, q, 200, "none", NoData)
    /\ UNCHANGED <<userContacts, alerts, userLoc, now, nextCid, outside>>

\* deleteEmergencyContact up to contact.remove(): findOne and the 404
DeleteFind(s, u, id) ==
    /\ LET q == [FreeRequest EXCEPT
                    !.op = "deleteContact", !.user = u, !.target = id]
       IN  IF ~CastsToObjectId(u)
           THEN Answers(s, q, 500, "ServerError", NoData)
           ELSE IF ~(id \in Ids /\ contacts[id].user = u)
           THEN Answers(s, q, 404, "NotFound", NoData)
           ELSE Goes(s, [q EXCEPT !.pc = "removing"])
    /\ UNCHANGED <<contacts, userContacts, alerts, userLoc, now, nextCid,
                   outside>>

\* contact.remove(): the document with the contact's id is deleted, if it is
\* still there
DeleteRemove(s) ==
    /\ At(s, "deleteContact", "removing")
    /\ contacts' = Restrict(contacts, Ids \ {reqs[s].target})
    /\ Goes(s, [reqs[s] EXCEPT !.pc = "pulling"])
    /\ UNCHANGED <<userContacts, alerts, userLoc, now, nextCid, outside>>

\* the $pull on the user, which updates nothing when the user has no User
\* document, and the 200
DeletePull(s) ==
    /\ At(s, "deleteContact", "pulling")
    /\ userContacts' =
            IF HasUserDocument(reqs[s].user)
            THEN [userContacts EXCEPT ![reqs[s].user] =
                        SeqWithout(@, reqs[s].target)]
            ELSE userContacts
    /\ Answers(s, reqs[s], 200, "none", NoData)
    /\ UNCHANGED <<contacts, alerts, userLoc, now, nextCid, outside>>

\* getEmergencyContacts: one await, the query, and the response
ListContacts(s, u) ==
    /\ LET list == getActiveContacts(u)
       IN  /\ reqs' = [reqs EXCEPT ![s] = FreeRequest]
           /\ lastOp' =
                IF CastsToObjectId(u)
                THEN Resp("listContacts", u, 0, NoBody, 200, "none",
                          [count |-> Len(list), data |-> list])
                ELSE Resp("listContacts", u, 0, NoBody, 500, "ServerError",
                          NoData)
    /\ UNCHANGED <<contacts, userContacts, alerts, userLoc, now, nextCid,
                   outside>>

\* bodies of PUT /contacts/:id: a phone alone, or isPrimary and user
Patches ==
    {p \in [phone : Phones \cup {Undefined}, isPrimary : BoolInputs,
            isActive : {Undefined}, user : Users \cup {Undefined},
            longitude : {Undefined}, latitude : {Undefined},
            alertType : {Undefined}, outcome : {Undefined},
            valid : {Undefined}] :
        p.phone = Undefined \/ (p.user = Undefined /\ p.isPrimary = Undefined)}

----------------------------------------------------------------------------
\* Initial stores: user "u1" and user "u2" each have a list of contacts, every
\* contact of one of three kinds. Nothing in the repository creates a User
\* document, so which users have one is part of the initial store.

Profiles == {"smsEmail", "emailPush", "inactive"}

ProfileContact(u, profile, primary) ==
    LET base == NewContact(u, "p1", Undefined, primary, 0)
    IN  CASE profile = "smsEmail" ->
                [base EXCEPT !.email = "c@mail.io"]
          [] profile = "emailPush" ->
                [base EXCEPT !.notificationPreferences = Prefs(FALSE, TRUE, TRUE)]
          [] profile = "inactive" ->
                [base EXCEPT !.isActive = FALSE]
          [] profile = "smsOnly" ->
                [base EXCEPT !.notificationPreferences = Prefs(TRUE, FALSE, FALSE)]

\* the contacts of "u1" get the ids 1..Len(l1), the contacts of "u2" the ids
\* after them; the last contact of each user is its primary one, and the
\* phones of one user's contacts differ
InitialContacts(l1, l2) ==
    LET n == Len(l1)
    IN  [c \in 1..(n + Len(l2)) |->
            IF c <= n
            THEN [ProfileContact("u1", l1[c], c = n) EXCEPT
                        !.phone = IF c = 1 THEN "p1" ELSE "p2"]
            ELSE [ProfileContact("u2", l2[c - n], c = n + Len(l2)) EXCEPT
                        !.phone = IF c = n + 1 THEN "p1" ELSE "p2"]]

\* The users that have a User document. No handler of the repository creates
\* one (register inserts a row into the users table and nothing calls
\* User.create or saves a new User), so the User collection is empty in every
\* store the program has built itself, and holds a document of every user
\* only when it was filled from outside.
DocumentSets == {{}, Users}

\* the collections: the users of `documented` have a User document, and the
\* contacts added while their owner had one are in its list
InitCollections(l1, l2) ==
    /\ contacts = InitialContacts(l1, l2)
    /\ \E documented \in DocumentSets :
        /\ userContacts = [u \in Users |->
                IF u \notin documented THEN <<>>
                ELSE IF u = "u1" THEN [i \in 1..Len(l1) |-> i]
                ELSE [i \in 1..Len(l2) |-> Len(l1) + i]]
        /\ userLoc = [u \in documented |-> DefaultLocation]
    /\ nextCid = Len(l1) + Len(l2) + 1
    /\ alerts = <<>>
    /\ now = 0
    /\ lastOp = Resp("init", Undefined, 0, NoBody, 0, "none", NoData)

\* every account exists and is active, and no request is in flight
InitStore(l1, l2) ==
    /\ InitCollections(l1, l2)
    /\ accounts = [u \in Uuids |-> "active"]
    /\ panic = PanicIdle
    /\ reqs = [s \in Slots |-> FreeRequest]

ProfileLists == UNION {[1..n -> Profiles] : n \in 0..MaxContacts}

----------------------------------------------------------------------------
\* The steps of the handlers, for the requests in flight

ActCreateAny == \E s \in Slots : ActCreate(s)

ActFindUserAny == \E s \in Slots : ActFindUser(s)

ActLocateAny == \E s \in Slots : ActLocate(s)

SmsSettlesAny ==
    \E s \in Slots, c \in 1..(nextCid - 1), ok \in BOOLEAN : SmsSettles(s, c, ok)

IncrementSavesAny == \E s \in Slots, c \in 1..(nextCid - 1) : IncrementSaves(s, c)

OtherSettlesAny ==
    \E s \in Slots, c \in 1..(nextCid - 1), ok \in BOOLEAN :
        OtherSettles(s, c, ok)

ActStoreAny == \E s \in Slots, io \in IoInputs : ActStore(s, io)

ResolveSaveAny == \E s \in Slots : ResolveSave(s)

ResolveFindUserAny == \E s \in Slots : ResolveFindUser(s)

ResolveNotifyAny == \E s \in Slots : ResolveNotify(s)

FalseAlarmSaveAny == \E s \in Slots : FalseAlarmSave(s)

AddClearAny == \E s \in Slots : AddClear(s)

AddCreateAny == \E s \in Slots : AddCreate(s)

AddAttachAny == \E s \in Slots : AddAttach(s)

UpdateClearAny == \E s \in Slots : UpdateClear(s)

UpdateWriteAny == \E s \in Slots : UpdateWrite(s)

DeleteRemoveAny == \E s \in Slots : DeleteRemove(s)

DeletePullAny == \E s \in Slots : DeletePull(s)

----------------------------------------------------------------------------
\* Spec: the alert lifecycle. "u1" has one contact with SMS and email, "u2" has
\* none; well-formed activations, the resolve and false-alarm requests of "u1",
\* and the clock.

InitLifecycle ==
    /\ InitStore(<<"smsEmail">>, <<>>)
    /\ mongoose \in MongooseMajors

ActivateValid ==
    \E s \in Slots, u \in Users :
        /\ Arrives(s)
        /\ AlertsPlanned < LifecycleAlerts
        /\ ActLoad(s, u, "3.37", "6.52", Undefined)

ResolveAny ==
    \E s \in Slots, u \in {"u1"}, id \in AlertIds, outcome \in OutcomeInputs :
        Arrives(s) /\ ResolveFind(s, u, id, outcome)

MarkFalseAlarmAny ==
    \E s \in Slots, u \in {"u1"}, id \in AlertIds :
        Arrives(s) /\ FalseAlarmFind(s, u, id)

NextLifecycle ==
    \/ ActivateValid \/ ActCreateAny \/ ActFindUserAny \/ ActLocateAny
    \/ SmsSettlesAny \/ IncrementSavesAny \/ OtherSettlesAny \/ ActStoreAny
    \/ ResolveAny \/ ResolveSaveAny \/ ResolveFindUserAny \/ ResolveNotifyAny
    \/ MarkFalseAlarmAny \/ FalseAlarmSaveAny
    \/ Tick

Spec == InitLifecycle /\ [][NextLifecycle]_vars

----------------------------------------------------------------------------
\* Properties of the alert lifecycle (checked under Spec)

Terminal == {"resolved", "false-alarm", "cancelled"}

\* the step is the first action of a request of handler op in slot s, and the
\* handler goes on to its next await
Passes(s, op) == reqs[s].pc = "free" /\ reqs'[s].op = op

\* the step ends the request of handler op in slot s, after its first action
Ends(s, op) == reqs[s].op = op /\ reqs'[s].pc = "free"

\* the step is the first action of a request of handler op and answers it
AnswersAtOnce(op) == lastOp'.op = op /\ reqs' = reqs

C4_TerminalStatesStay ==
    [][/\ \A id \in DOMAIN alerts :
            alerts[id].status \in Terminal =>
                /\ alerts'[id].status = alerts[id].status
                /\ alerts'[id].deactivatedAt = alerts[id].deactivatedAt
                /\ alerts'[id].resolution = alerts[id].resolution
       /\ \A s \in DOMAIN reqs :
            Passes(s, "falseAlarm") =>
                alerts[reqs'[s].target].status = "active"
       /\ (AnswersAtOnce("falseAlarm")
           /\ FindAlert(lastOp'.target, lastOp'.user)) =>
                lastOp'.status = 400
      ]_vars

\* C10: the duration stored on a resolved alert is the deactivation timestamp
\* minus the activation timestamp in whole seconds, rounded down, and is >= 0.
C10_DurationFloorSeconds ==
    \A id \in DOMAIN alerts :
        alerts[id].status = "resolved" =>
            LET a == alerts[id]
                ms == a.deactivatedAt - a.activatedAt
            IN  /\ a.duration >= 0
                /\ a.duration * MsPerSecond <= ms
                /\ ms < (a.duration + 1) * MsPerSecond

\* C10 witness: an alert resolved one tick after its activation, with the
\* duration of the whole seconds of the tick
C10_Witness ==
    \E id \in DOMAIN alerts :
        /\ alerts[id].status = "resolved"
        /\ alerts[id].deactivatedAt - alerts[id].activatedAt = TickMs
        /\ alerts[id].duration = TickMs \div MsPerSecond

\* C11: a successful resolve request and a successful false-alarm request
\* each attempt one resolution SMS to every SMS-enabled contact of the alert's
\* notified contacts, and are answered with success whatever these attempts do.
C11_ResolutionSmsBothFlows ==
    [][(lastOp'.op \in {"resolve", "falseAlarm"} /\ lastOp'.success) =>
            lastOp'.data.attempts
                = {<<c, "sms">> :
                        c \in ResolutionRecipients(alerts'[lastOp'.target])}
      ]_vars

AlertsOf(store, u) == {id \in DOMAIN store : store[id].user = u}

\* C22: alert records are never deleted, the owner, alert type, location and
\* activation timestamp of every alert are the same in every later state (only
\* status, resolution, deactivation timestamp, duration and outcome list
\* change), and the number of alerts of a user never decreases.
C22_AlertsKeepTheirIdentity ==
    [][/\ \A id \in DOMAIN alerts :
            /\ id \in DOMAIN alerts'
            /\ alerts'[id].user = alerts[id].user
            /\ alerts'[id].alertType = alerts[id].alertType
            /\ alerts'[id].coordinates = alerts[id].coordinates
            /\ alerts'[id].activatedAt = alerts[id].activatedAt
       /\ \A u \in Users :
            Cardinality(AlertsOf(alerts', u)) >= Cardinality(AlertsOf(alerts, u))
      ]_vars

\* C22 witness: an alert activated at an earlier time has been marked a false
\* alarm after the clock advanced, and it still carries its activation time
C22_Witness ==
    /\ lastOp.op = "falseAlarm"
    /\ lastOp.success
    /\ lastOp.target \in DOMAIN alerts
    /\ alerts[lastOp.target].status = "false-alarm"
    /\ alerts[lastOp.target].activatedAt < alerts[lastOp.target].deactivatedAt
    /\ alerts[lastOp.target].deactivatedAt = now

\* C15: the status check of a transition and its write are separate steps,
\* and the write does not look at the stored status: of the requests that
\* loaded the alert while it was active, the save of a resolve request stores
\* 'resolved' and the save of a false-alarm request stores 'false-alarm'
\* whatever another request stored since, so the status is that of the
\* request that wrote last; and each of the two requests is answered with
\* success (the resolve of a user with a User document).
C15_LastWriteWins ==
    [][\A s \in DOMAIN reqs :
            /\ (/\ At(s, "resolve", "saving")
                /\ reqs[s].seen = "active"
                /\ reqs'[s].pc = "findingUser") =>
                    /\ alerts'[reqs[s].target].status = "resolved"
                    /\ alerts'[reqs[s].target].deactivatedAt
                            = reqs[s].doc[1].deactivatedAt
            /\ (/\ At(s, "falseAlarm", "saving")
                /\ reqs[s].seen = "active"
                /\ reqs'[s] # reqs[s]) =>
                    /\ alerts'[reqs[s].target].status = "false-alarm"
                    /\ alerts'[reqs[s].target].deactivatedAt
                            = reqs[s].doc[1].deactivatedAt
                    /\ lastOp'.status = 200
            /\ (/\ Ends(s, "resolve")
                /\ OutcomeValid(reqs[s].body.outcome)
                /\ HasUserDocument(reqs[s].user)) =>
                    lastOp'.status = 200
      ]_vars

\* C15 witness: a resolve request with outcome 'safe' has been answered with
\* success, and the alert it resolved is a false alarm: a false-alarm request
\* wrote after the resolve request did
C15_Witness ==
    /\ lastOp.op = "resolve"
    /\ lastOp.status = 200
    /\ alerts[lastOp.target].status = "false-alarm"
    /\ alerts[lastOp.target].resolution.outcome = "safe"

----------------------------------------------------------------------------
\* SpecDispatch: activations with every request body, by both users, for the
\* contact lists of DispatchLists; two requests can be in flight.

AlertTypeInputs == {Undefined, "bogus"}

DispatchLists ==
    {l \in ProfileLists :
        \/ Len(l) <= 1
        \/ l = <<"smsEmail", "emailPush">>}

InitDispatch ==
    /\ \E l1 \in DispatchLists : InitStore(l1, <<>>)
    /\ mongoose \in MongooseMajors

ActivateAny ==
    \E s \in Slots, u \in Users, lon \in LonInputs, lat \in LatInputs,
       alertType \in AlertTypeInputs :
        /\ Arrives(s)
        /\ AlertsPlanned < MaxAlerts
        /\ ActLoad(s, u, lon, lat, alertType)

NextDispatch ==
    \/ ActivateAny \/ ActCreateAny \/ ActFindUserAny \/ ActLocateAny
    \/ SmsSettlesAny \/ IncrementSavesAny \/ OtherSettlesAny \/ ActStoreAny

SpecDispatch == InitDispatch /\ [][NextDispatch]_vars

\* the active contacts of user u
ActiveContactsOf(u) ==
    {c \in DOMAIN contacts : contacts[c].user = u /\ contacts[c].isActive}

\* the request body has a present, well-formed coordinate pair
WellFormedPair(in) == WellFormed(in.longitude) /\ WellFormed(in.latitude)

\* C1 (as amended): every activation by a user who has zero active contacts
\* is answered 400 in its first step and goes no further: no alert is created,
\* no user location is updated, no contact changes and no notification is
\* attempted. The error is the no-contacts error when longitude and latitude
\* are both truthy, and the location-required error when one of them is falsy
\* (absent, null, false, 0 or the empty string), as the location check runs
\* first.
C1_NoContactsRefused ==
    [][/\ (/\ lastOp'.op = "activate"
           /\ ActiveContactsOf(lastOp'.user) = {}) =>
                /\ AnswersAtOnce("activate")
                /\ lastOp'.status = 400
                /\ lastOp'.err =
                        IF LocationMissing(lastOp'.in.longitude,
                                           lastOp'.in.latitude)
                        THEN "LocationRequired"
                        ELSE "NoContacts"
                /\ UNCHANGED <<alerts, userLoc, contacts, userContacts>>
       /\ \A s \in DOMAIN reqs :
            Passes(s, "activate") =>
                /\ ActiveContactsOf(reqs'[s].user) # {}
                /\ UNCHANGED <<alerts, userLoc, contacts, userContacts>>
      ]_vars

\* C1 witness: a user without active contacts has sent longitude 3.37 and no
\* usable latitude (null) and has been refused with the location-required
\* error, with no alert created
C1_Witness ==
    /\ lastOp.op = "activate"
    /\ lastOp.status = 400
    /\ lastOp.err = "LocationRequired"
    /\ ActiveContactsOf(lastOp.user) = {}
    /\ lastOp.in.longitude = "3.37"
    /\ lastOp.in.latitude = Null
    /\ alerts = <<>>

\* C1 as stated: every activation of a user with zero active contacts is
\* answered with the no-contacts error
C1_NoContactsError ==
    [][(AnswersAtOnce("activate") /\ ActiveContactsOf(lastOp'.user) = {}) =>
            lastOp'.err = "NoContacts"
      ]_vars

\* the request body is a valid activation
ValidActivation(in) ==
    /\ WellFormedPair(in)
    /\ AlertTypeOrDefault(in.alertType) \in AlertTypes

\* C2: a valid activation (well-formed coordinates, at least one active
\* contact) is not refused, and its create adds exactly one alert record, owned
\* by the caller, with status 'active' and an activation timestamp not later
\* than the current time; no step of an activation creates another record or
\* alters the record of another activation.
C2_OneAlertPerValidActivation ==
    [][/\ AnswersAtOnce("activate") =>
            ~(/\ ValidActivation(lastOp'.in)
              /\ ActiveContactsOf(lastOp'.user) # {})
       /\ \A s \in DOMAIN reqs :
            /\ (At(s, "activate", "creating") /\ reqs'[s] # reqs[s]
                /\ ValidActivation(reqs[s].body)) =>
                    /\ Len(alerts') = Len(alerts) + 1
                    /\ reqs'[s].target = Len(alerts')
                    /\ alerts'[Len(alerts')].user = reqs[s].user
                    /\ alerts'[Len(alerts')].status = "active"
                    /\ alerts'[Len(alerts')].activatedAt <= now
                    /\ \A id \in DOMAIN alerts : alerts'[id] = alerts[id]
            /\ (reqs[s].op = "activate" /\ reqs[s].pc # "creating"
                /\ reqs'[s] # reqs[s]) =>
                    /\ Len(alerts') = Len(alerts)
                    /\ \A id \in DOMAIN alerts :
                            id # reqs[s].target => alerts'[id] = alerts[id]
      ]_vars

\* the channels enabled for the loaded contact document
EnabledChannels(doc) == {ch \in Channels : DocAttempts(doc, ch)}

RECURSIVE SumOver(_, _)
SumOver(f, S) ==
    IF S = {} THEN 0
    ELSE LET x == CHOOSE y \in S : TRUE
         IN  f[x] + SumOver(f, S \ {x})

\* C5: when the attempts of an activation have all settled, the request is
\* answered with success and the alert's outcome list has one entry for every
\* enabled channel of every loaded contact, also when every attempt failed.
C5_OneOutcomePerChannel ==
    [][\A s \in DOMAIN reqs :
            (At(s, "activate", "fanout") /\ Ends(s, "activate")) =>
                /\ lastOp'.success
                /\ Len(alerts'[reqs[s].target].notifiedContacts)
                    = SumOver([c \in DOMAIN reqs[s].docs |->
                                    Cardinality(EnabledChannels(reqs[s].docs[c]))],
                              DOMAIN reqs[s].docs)
      ]_vars

\* some attempt of the activation in slot s failed
SomeAttemptFailed(q) ==
    \E c \in DOMAIN q.res :
        Len(q.res[c].notificationMethod)
            < Cardinality(EnabledChannels(q.docs[c]))

\* C6: an activation of which some SMS, email or push attempt failed is
\* answered with success (201) and its alert record stays, with status
\* 'active'.
C6_ChannelFailuresNeverFail ==
    [][\A s \in DOMAIN reqs :
            (/\ At(s, "activate", "fanout")
             /\ Ends(s, "activate")
             /\ SomeAttemptFailed(reqs[s])) =>
                /\ lastOp'.status = 201
                /\ lastOp'.success
                /\ alerts'[reqs[s].target].status = "active"
      ]_vars

\* C9: an activation is answered 400 with the location error exactly when its
\* longitude or latitude is missing or malformed, such a request changes
\* nothing, and every request with a present, well-formed pair goes past the
\* location check.
C9_InvalidLocationExactly ==
    [][/\ AnswersAtOnce("activate") =>
            /\ (lastOp'.err = "LocationRequired" /\ lastOp'.status = 400)
                    <=> ~WellFormedPair(lastOp'.in)
            /\ lastOp'.err = "LocationRequired" =>
                    UNCHANGED <<alerts, userLoc, contacts, userContacts>>
       /\ \A s \in DOMAIN reqs :
            Passes(s, "activate") => WellFormedPair(reqs'[s].body)
      ]_vars

\* C20: the count of contacts notified in the summary of an activation equals
\* the number of active contacts loaded for it, whatever the attempts did, and
\* the real-time signal, when it is emitted, carries the same count.
C20_CountIsContactsLoaded ==
    [][\A s \in DOMAIN reqs :
            (Ends(s, "activate") /\ lastOp'.status = 201) =>
                /\ lastOp'.data.notifiedContacts
                        = Cardinality(DOMAIN reqs[s].docs)
                /\ lastOp'.data.signal \in {0, lastOp'.data.notifiedContacts}
      ]_vars

\* C20 witness: the summary of an activation of a user with two active
\* contacts, one reached by SMS and not by email and the other by one of its
\* two channels, says 2, and so does the signal
C20_Witness ==
    /\ lastOp.op = "activate"
    /\ lastOp.status = 201
    /\ lastOp.data.notifiedContacts = 2
    /\ lastOp.data.signal = 2
    /\ Cardinality(ActiveContactsOf(lastOp.user)) = 2
    /\ \E i \in DOMAIN alerts[lastOp.data.alertId].notifiedContacts :
            alerts[lastOp.data.alertId].notifiedContacts[i].deliveryStatus
                = "pending"

\* C27: when an activation is answered with a failure, no alert record that
\* the request created is in the store.
C27_FailureLeavesNoAlert ==
    [][(lastOp'.op = "activate" /\ ~lastOp'.success) =>
            lastOp'.target \notin DOMAIN alerts'
      ]_vars

----------------------------------------------------------------------------
\* SpecFanOut: the activations of "u1", who has a contact with SMS and email
\* and a primary contact with push (and email, but no address), while "u1"
\* deletes contacts; two requests can be in flight.

InitFanOut ==
    /\ InitStore(<<"smsEmail", "emailPush">>, <<>>)
    /\ mongoose \in MongooseMajors

ActivateByU1 ==
    \E s \in Slots :
        /\ Arrives(s)
        /\ AlertsPlanned < MaxAlerts
        /\ ActLoad(s, "u1", "3.37", "6.52", Undefined)

DeleteByU1 ==
    \E s \in Slots, id \in ContactIds :
        Arrives(s) /\ DeleteFind(s, "u1", id)

NextFanOut ==
    \/ ActivateByU1 \/ ActCreateAny \/ ActFindUserAny \/ ActLocateAny
    \/ SmsSettlesAny \/ IncrementSavesAny \/ OtherSettlesAny \/ ActStoreAny
    \/ DeleteByU1 \/ DeleteRemoveAny \/ DeletePullAny

SpecFanOut == InitFanOut /\ [][NextFanOut]_vars

\* slot s holds an activation whose callbacks have been started
FanningOut(s) == At(s, "activate", "fanout")

\* C13: the delivery status of a contact's outcome becomes 'sent' when its
\* SMS send succeeds and 'failed' when the SMS attempt raises, and is changed
\* by nothing else: not by the failure, or success, of the email or push
\* attempt for that contact, and not by the update of the contact's counter.
C13_StatusFollowsSms ==
    [][\A s \in DOMAIN reqs :
            (FanningOut(s) /\ reqs'[s].pc = "fanout") =>
                \A c \in DOMAIN reqs[s].cb :
                    LET before == reqs[s].res[c].deliveryStatus
                        after == reqs'[s].res[c].deliveryStatus
                    IN  IF reqs[s].cb[c] = "sms" /\ reqs'[s].cb[c] # "sms"
                        THEN after = IF reqs'[s].cb[c] = "inc"
                                     THEN "sent" ELSE "failed"
                        ELSE after = before
      ]_vars

\* C17: the outcome list of an activation is written, and the request
\* answered, only when the callback of every loaded contact has returned; while
\* an attempt for some contact is in flight the stored alert holds no outcomes.
C17_OutcomesAfterAllSettle ==
    /\ [](\A s \in DOMAIN reqs :
            (FanningOut(s) /\ ~AllSettled(reqs[s])) =>
                alerts[reqs[s].target].notifiedContacts = <<>>)
    /\ [][\A s \in DOMAIN reqs :
            (FanningOut(s) /\ reqs'[s].pc # "fanout") =>
                /\ \A c \in DOMAIN reqs[s].cb : reqs[s].cb[c] = "done"
                /\ Range(reqs[s].settled) = Range(reqs[s].list)
         ]_vars

\* C17 witness: the outcomes of both contacts have been stored, in the order
\* of the loaded list (the primary contact, 2, first)
C17_Witness ==
    /\ lastOp.op = "activate"
    /\ lastOp.status = 201
    /\ LET stored == alerts[lastOp.data.alertId].notifiedContacts
       IN  /\ Len(stored) = 2
           /\ stored[1].contact = 2
           /\ stored[2].contact = 1

\* the positions of an activation after its alert record was created
AfterCreate == {"findingUser", "locating", "fanout"}

\* C18: an activation creates its alert record, then sets the user's location
\* to the alert's coordinates, then attempts the notifications, then stores
\* the outcomes, emits the signal and answers: a request that has not created
\* its record has set no location and started no attempt, a request that
\* attempts notifications has its record and has set the location, and the
\* outcomes are stored by the step that answers 201.
C18_StepsInOrder ==
    /\ [](\A s \in DOMAIN reqs :
            reqs[s].op = "activate" =>
                /\ reqs[s].pc \in AfterCreate =>
                        /\ reqs[s].target \in DOMAIN alerts
                        /\ alerts[reqs[s].target].user = reqs[s].user
                        /\ alerts[reqs[s].target].notifiedContacts = <<>>
                /\ reqs[s].pc # "fanout" => reqs[s].cb = <<>>
                /\ reqs[s].pc = "fanout" =>
                        userLoc[reqs[s].user].coordinates
                            = alerts[reqs[s].target].coordinates)
    /\ [][\A s \in DOMAIN reqs :
            /\ (reqs[s].op = "activate" /\ reqs'[s] # reqs[s]
                /\ userLoc' # userLoc) =>
                    /\ reqs[s].pc = "locating"
                    /\ reqs'[s].pc = "fanout"
            /\ (reqs[s].op = "activate" /\ reqs'[s] # reqs[s]
                /\ reqs[s].target \in DOMAIN alerts
                /\ alerts'[reqs[s].target].notifiedContacts # <<>>) =>
                    /\ reqs[s].pc = "fanout"
                    /\ lastOp'.status = 201
                    /\ lastOp'.data.signal
                            \in {0, lastOp'.data.notifiedContacts}
         ]_vars

\* C18 witness: an activation has gone through all its steps: its record is
\* there with the outcomes, the user's location is the alert's, the signal was
\* emitted and the answer is 201
C18_Witness ==
    /\ lastOp.op = "activate"
    /\ lastOp.status = 201
    /\ lastOp.data.signal > 0
    /\ alerts[lastOp.data.alertId].notifiedContacts # <<>>
    /\ userLoc[lastOp.user].coordinates
            = alerts[lastOp.data.alertId].coordinates

\* C19: the save of incrementAlertCount after a successful SMS send raises
\* the contact's alert counter by exactly one and sets its last-alert
\* timestamp, and no other step of an activation changes the counter, so the
\* counter is the number of successful alert SMS sends to the contact.
C19_CounterEqualsSmsSent ==
    [][\A s \in DOMAIN reqs : \A c \in DOMAIN reqs[s].cb :
            FanningOut(s) =>
                IF reqs[s].cb[c] = "inc" /\ reqs'[s].cb[c] # "inc"
                THEN /\ c \in DOMAIN contacts'
                     /\ contacts'[c].alertCount = contacts[c].alertCount + 1
                     /\ contacts'[c].lastAlertSent = reqs[s].docs[c].lastAlertSent
                ELSE (reqs'[s] # reqs[s] /\ c \in DOMAIN contacts) =>
                        contacts'[c] = contacts[c]
      ]_vars

----------------------------------------------------------------------------
\* SpecContacts: add, update and delete requests on an empty contact store;
\* "u1" sends every kind of request and "u2" adds contacts; two requests can be
\* in flight. No contact handler depends on the version of the library.

InitContacts ==
    /\ InitStore(<<>>, <<>>)
    /\ mongoose = 4

AddAny ==
    \E s \in Slots, u \in Users, phone \in Phones,
       isPrimary \in PrimaryInputs, valid \in {"true", "false"} :
        /\ Arrives(s)
        /\ ContactsPlanned < MaxContactIds \/ PhoneTaken(u, phone)
        /\ AddFind(s, u, phone, isPrimary, valid)

\* bodies of PUT /contacts/:id with one field: a phone, the primary flag, or
\* an owner
ContactPatches ==
    {p \in Patches :
        \/ p.phone # Undefined
        \/ Truthy(p.isPrimary) /\ p.user = Undefined
        \/ p.isPrimary = Undefined /\ p.user = "u2"}

UpdateAny ==
    \E s \in Slots, id \in ContactIds, patch \in ContactPatches :
        Arrives(s) /\ UpdateFind(s, "u1", id, patch)

DeleteAny ==
    \E s \in Slots, id \in ContactIds :
        Arrives(s) /\ DeleteFind(s, "u1", id)

NextContacts ==
    \/ AddAny \/ AddClearAny \/ AddCreateAny \/ AddAttachAny
    \/ UpdateAny \/ UpdateClearAny \/ UpdateWriteAny
    \/ DeleteAny \/ DeleteRemoveAny \/ DeletePullAny

SpecContacts == InitContacts /\ [][NextContacts]_vars

\* the contacts of user u in a contact collection
ContactsOf(store, u) == {c \in DOMAIN store : store[c].user = u}

\* a contact of user u has the phone
HasPhone(store, u, phone) ==
    \E c \in DOMAIN store : store[c].user = u /\ store[c].phone = phone

\* C8: addContact with a phone that a contact of the caller already has is
\* answered 400 (duplicate) at once and changes no contact, no primary flag
\* and no contact list, and only a request whose phone no contact of the caller
\* has goes on; such a request with a valid body, also when a contact of
\* another user has the phone, creates the contact for the caller, unless a
\* contact of the caller got the phone in between, and is then answered 201.
C8_DuplicatePhonePerUser ==
    [][/\ AnswersAtOnce("addContact") =>
            /\ HasPhone(contacts, lastOp'.user, lastOp'.in.phone)
            /\ lastOp'.status = 400
            /\ lastOp'.err = "Duplicate"
            /\ UNCHANGED <<contacts, userContacts>>
       /\ \A s \in DOMAIN reqs :
            /\ Passes(s, "addContact") =>
                /\ ~HasPhone(contacts, reqs'[s].user, reqs'[s].body.phone)
                /\ UNCHANGED <<contacts, userContacts>>
            /\ (/\ At(s, "addContact", "writing")
                /\ reqs'[s] # reqs[s]
                /\ reqs[s].body.valid = "true"
                /\ ~HasPhone(contacts, reqs[s].user, reqs[s].body.phone)) =>
                    /\ reqs'[s].pc = "attaching"
                    /\ reqs'[s].target \notin DOMAIN contacts
                    /\ DOMAIN contacts' = DOMAIN contacts \cup {reqs'[s].target}
                    /\ contacts'[reqs'[s].target].user = reqs[s].user
                    /\ contacts'[reqs'[s].target].phone = reqs[s].body.phone
            /\ (At(s, "addContact", "attaching") /\ reqs'[s] # reqs[s]) =>
                    /\ lastOp'.status = 201
                    /\ contacts' = contacts
      ]_vars

\* C8 witness: two users have a contact with the same phone, one of them the
\* primary contact of its owner, and this owner's request to add the phone
\* again as the primary contact has been refused as a duplicate
C8_Witness ==
    /\ lastOp.op = "addContact"
    /\ lastOp.err = "Duplicate"
    /\ lastOp.in.isPrimary = "true"
    /\ \E a, b \in DOMAIN contacts :
          /\ contacts[a].user = lastOp.user
          /\ contacts[a].phone = lastOp.in.phone
          /\ contacts[a].isPrimary
          /\ contacts[b].user # lastOp.user
          /\ contacts[b].phone = lastOp.in.phone

\* C21: in every state, whatever add, update and delete requests were made and
\* however they overlapped, no two contacts of the same user have the same
\* phone.
C21_PhoneUniquePerUser ==
    \A a, b \in Ids :
        (a # b /\ contacts[a].user = contacts[b].user)
            => contacts[a].phone # contacts[b].phone

\* C21 witness: an update that sets a contact's phone to the phone of another
\* contact of the same user has been refused, and both contacts exist with
\* different phones
C21_Witness ==
    /\ lastOp.op = "updateContact"
    /\ lastOp.status = 500
    /\ lastOp.in.phone # Undefined
    /\ lastOp.target \in Ids
    /\ contacts[lastOp.target].user = lastOp.user
    /\ contacts[lastOp.target].phone # lastOp.in.phone
    /\ \E b \in Ids \ {lastOp.target} :
          /\ contacts[b].user = lastOp.user
          /\ contacts[b].phone = lastOp.in.phone

\* C23: after every completed addContact or deleteContact the caller's
\* contact-id list contains exactly the ids of the caller's existing contacts.
C23_ListMatchesContacts ==
    [][(lastOp'.op \in {"addContact", "deleteContact"} /\ lastOp'.success) =>
            Range(userContacts'[lastOp'.user])
                = ContactsOf(contacts', lastOp'.user)
      ]_vars

\* C29: no step of an updateContact request changes the owner, the alert
\* counter or the last-alert timestamp of a contact, creates or removes a
\* contact, changes a contact of another user, or changes more than the
\* primary flag of the caller's other contacts.
C29_UpdateKeepsOwnerAndCounters ==
    [][\A s \in DOMAIN reqs :
            (reqs[s].op = "updateContact" /\ reqs'[s] # reqs[s]) =>
                /\ DOMAIN contacts' = DOMAIN contacts
                /\ \A c \in DOMAIN contacts :
                      /\ contacts'[c].user = contacts[c].user
                      /\ contacts'[c].alertCount = contacts[c].alertCount
                      /\ contacts'[c].lastAlertSent = contacts[c].lastAlertSent
                      /\ contacts[c].user # reqs[s].user
                            => contacts'[c] = contacts[c]
                      /\ (contacts[c].user = reqs[s].user /\ c # reqs[s].target)
                            => [contacts'[c] EXCEPT !.isPrimary = FALSE]
                                = [contacts[c] EXCEPT !.isPrimary = FALSE]
      ]_vars

----------------------------------------------------------------------------
\* SpecSequential: the requests of SpecContacts under non-concurrent access:
\* a request is sent when no other request is in flight.

NoneInFlight == \A s \in Slots : reqs[s].pc = "free"

AddAlone == NoneInFlight /\ AddAny

UpdateAlone == NoneInFlight /\ UpdateAny

DeleteAlone == NoneInFlight /\ DeleteAny

NextSequential ==
    \/ AddAlone \/ AddClearAny \/ AddCreateAny \/ AddAttachAny
    \/ UpdateAlone \/ UpdateClearAny \/ UpdateWriteAny
    \/ DeleteAlone \/ DeleteRemoveAny \/ DeletePullAny

SpecSequential == InitContacts /\ [][NextSequential]_vars

PrimaryOf(store, u) ==
    {c \in DOMAIN store : store[c].user = u /\ store[c].isPrimary}

\* C7: under non-concurrent access each user has at most one primary contact
\* in every state, and an update that sets isPrimary=true on a contact and is
\* answered with success leaves it the only primary contact of its owner.
C7_AtMostOnePrimary ==
    [][/\ \A u \in Users : Cardinality(PrimaryOf(contacts', u)) <= 1
       /\ (/\ lastOp'.op = "updateContact"
           /\ lastOp'.success
           /\ lastOp'.in.isPrimary = "true") =>
                /\ lastOp'.target \in DOMAIN contacts'
                /\ PrimaryOf(contacts', contacts'[lastOp'.target].user)
                        = {lastOp'.target}
      ]_vars

----------------------------------------------------------------------------
\* SpecOwnership: both users have one contact with SMS; activation, the two
\* transitions and the update and delete of contacts, by both users on every
\* id; two requests can be in flight.

InitOwnership ==
    /\ InitStore(<<"smsOnly">>, <<"smsOnly">>)
    /\ mongoose \in MongooseMajors

ResolveSafe ==
    \E s \in Slots, u \in Users, id \in AlertIds :
        Arrives(s) /\ ResolveFind(s, u, id, "safe")

FalseAlarmByAnyone ==
    \E s \in Slots, u \in Users, id \in AlertIds :
        Arrives(s) /\ FalseAlarmFind(s, u, id)

\* bodies of PUT /contacts/:id that name an owner
OwnerPatches ==
    {p \in Patches :
        p.phone = Undefined /\ p.isPrimary = Undefined /\ p.user # Undefined}

UpdateOwner ==
    \E s \in Slots, u \in Users, id \in ContactIds, patch \in OwnerPatches :
        Arrives(s) /\ UpdateFind(s, u, id, patch)

DeleteByAnyone ==
    \E s \in Slots, u \in Users, id \in ContactIds :
        Arrives(s) /\ DeleteFind(s, u, id)

NextOwnership ==
    \/ ActivateValid \/ ActCreateAny \/ ActFindUserAny \/ ActLocateAny
    \/ SmsSettlesAny \/ IncrementSavesAny \/ ActStoreAny
    \/ ResolveSafe \/ ResolveSaveAny \/ ResolveFindUserAny \/ ResolveNotifyAny
    \/ FalseAlarmByAnyone \/ FalseAlarmSaveAny
    \/ UpdateOwner \/ UpdateWriteAny
    \/ DeleteByAnyone \/ DeleteRemoveAny \/ DeletePullAny

SpecOwnership == InitOwnership /\ [][NextOwnership]_vars

\* the contacts and the alerts of the users other than u
ContactsOfOthers(store, u) ==
    {<<c, store[c]>> : c \in {d \in DOMAIN store : store[d].user # u}}

AlertsOfOthers(store, u) ==
    {<<i, store[i]>> : i \in {j \in DOMAIN store : store[j].user # u}}

OwnContact(u, id) == id \in DOMAIN contacts /\ contacts[id].user = u

OwnAlert(u, id) == id \in DOMAIN alerts /\ alerts[id].user = u

\* C12: an update or delete of a contact, and a resolve or false-alarm of an
\* alert, that names an id which does not exist or belongs to another user is
\* answered 404 at once and changes no contact, no contact list and no alert,
\* and only a request on the caller's own contact or alert goes on; and no
\* step of a request of a user changes or removes a contact or an alert that
\* belongs to another user.
C12_NotFoundForForeignIds ==
    [][/\ (/\ AnswersAtOnce("updateContact") \/ AnswersAtOnce("deleteContact")
           /\ ~OwnContact(lastOp'.user, lastOp'.target)) =>
                /\ lastOp'.status = 404
                /\ UNCHANGED <<contacts, userContacts, alerts>>
       /\ (/\ AnswersAtOnce("resolve") \/ AnswersAtOnce("falseAlarm")
           /\ ~OwnAlert(lastOp'.user, lastOp'.target)) =>
                /\ lastOp'.status = 404
                /\ UNCHANGED <<contacts, userContacts, alerts>>
       /\ \A s \in DOMAIN reqs :
            /\ Passes(s, "updateContact") \/ Passes(s, "deleteContact") =>
                    OwnContact(reqs'[s].user, reqs'[s].target)
            /\ Passes(s, "resolve") \/ Passes(s, "falseAlarm") =>
                    OwnAlert(reqs'[s].user, reqs'[s].target)
            /\ (reqs[s].pc # "free" /\ reqs'[s] # reqs[s]) =>
                    /\ ContactsOfOthers(contacts, reqs[s].user)
                          \subseteq ContactsOfOthers(contacts', reqs[s].user)
                    /\ AlertsOfOthers(alerts, reqs[s].user)
                          \subseteq AlertsOfOthers(alerts', reqs[s].user)
      ]_vars

----------------------------------------------------------------------------
\* SpecPrimary: "u1" has one contact, its primary one, and adds contacts and
\* updates them, setting the primary flag or a phone; two requests can be in
\* flight.

InitPrimary ==
    /\ InitStore(<<"smsOnly">>, <<>>)
    /\ mongoose = 4

\* bodies of PUT /contacts/:id that set the primary flag or a phone
PrimaryPatches ==
    {p \in Patches : /\ p.user = Undefined
                     /\ \/ p.phone = Undefined /\ Truthy(p.isPrimary)
                        \/ p.phone # Undefined}

AddByU1 ==
    \E s \in Slots, phone \in Phones, isPrimary \in PrimaryInputs :
        /\ Arrives(s)
        /\ ContactsPlanned < MaxContactIds
        /\ AddFind(s, "u1", phone, isPrimary, "true")

UpdateByU1 ==
    \E s \in Slots, id \in ContactIds, patch \in PrimaryPatches :
        Arrives(s) /\ UpdateFind(s, "u1", id, patch)

NextPrimary ==
    \/ AddByU1 \/ AddClearAny \/ AddCreateAny \/ AddAttachAny
    \/ UpdateByU1 \/ UpdateClearAny \/ UpdateWriteAny

SpecPrimary == InitPrimary /\ [][NextPrimary]_vars

\* the step is the create or the update of a request in slot s that sets
\* isPrimary=true, and it writes the contact
WritesPrimary(s) ==
    /\ reqs[s].op \in {"addContact", "updateContact"}
    /\ reqs[s].pc = "writing"
    /\ reqs[s].body.isPrimary = "true"
    /\ reqs'[s] # reqs[s]
    /\ contacts' # contacts

\* C14: the clear-others write of a request that sets isPrimary=true and its
\* create or update are separate steps, and the create or update makes its
\* contact primary and leaves every other contact as it is, also a contact
\* that another request made primary after the clear-others write; two such
\* requests of one user that interleave leave the user with more than one
\* primary contact.
C14_PrimaryRaceLeavesTwo ==
    [][\A s \in DOMAIN reqs :
            WritesPrimary(s) =>
                LET id == IF reqs[s].op = "addContact"
                          THEN reqs'[s].target ELSE reqs[s].target
                IN  /\ contacts'[id].isPrimary
                    /\ contacts'[id].user = reqs[s].user
                    /\ \A c \in DOMAIN contacts \ {id} :
                            contacts'[c] = contacts[c]
                    /\ PrimaryOf(contacts', reqs[s].user)
                            = PrimaryOf(contacts, reqs[s].user) \cup {id}
      ]_vars

\* C14 witness: an update request that set isPrimary=true has been answered
\* with success and the user has two primary contacts, the contact of the
\* request and one more
C14_Witness ==
    /\ lastOp.op = "updateContact"
    /\ lastOp.status = 200
    /\ lastOp.in.isPrimary = "true"
    /\ lastOp.target \in PrimaryOf(contacts, lastOp.user)
    /\ Cardinality(PrimaryOf(contacts, lastOp.user)) = 2

----------------------------------------------------------------------------
\* SpecListing: GET /emergency/contacts while both users add contacts and set
\* their primary and active flags, and the clock advances

\* bodies of PUT /contacts/:id that set the primary flag or the active flag
FlagPatches ==
    {p \in [phone : {Undefined}, isPrimary : BoolInputs,
            isActive : BoolInputs, user : {Undefined},
            longitude : {Undefined}, latitude : {Undefined},
            alertType : {Undefined}, outcome : {Undefined},
            valid : {Undefined}] :
        (p.isPrimary = Undefined) # (p.isActive = Undefined)}

InitListing ==
    /\ InitStore(<<>>, <<>>)
    /\ mongoose = 4

AddValid ==
    \E s \in Slots, u \in Users, phone \in Phones,
       isPrimary \in PrimaryInputs :
        /\ Arrives(s)
        /\ ContactsPlanned < MaxContactIds
        /\ AddFind(s, u, phone, isPrimary, "true")

UpdateFlags ==
    \E s \in Slots, id \in Ids, patch \in FlagPatches :
        Arrives(s) /\ UpdateFind(s, contacts[id].user, id, patch)

ListAny == \E s \in Slots, u \in Users : Arrives(s) /\ ListContacts(s, u)

NextListing ==
    \/ AddValid \/ AddClearAny \/ AddCreateAny \/ AddAttachAny
    \/ UpdateFlags \/ UpdateClearAny \/ UpdateWriteAny
    \/ ListAny \/ Tick

SpecListing == InitListing /\ [][NextListing]_vars

\* C25: listActiveContacts returns exactly the caller's contacts whose active
\* flag is set, each once, primary contacts first and, among contacts with the
\* same primary flag, in creation order.
C25_ListIsActiveSorted ==
    lastOp.op = "listContacts" =>
        LET list == lastOp.data.data
        IN  /\ lastOp.status = 200
            /\ lastOp.data.count = Len(list)
            /\ Range(list) = {c \in DOMAIN contacts :
                                /\ contacts[c].user = lastOp.user
                                /\ contacts[c].isActive}
            /\ \A i, j \in DOMAIN list : i < j =>
                  /\ list[i] # list[j]
                  /\ contacts[list[j]].isPrimary => contacts[list[i]].isPrimary
                  /\ contacts[list[i]].isPrimary = contacts[list[j]].isPrimary
                        => contacts[list[i]].createdAt
                                <= contacts[list[j]].createdAt

\* C25 witness: the caller has an older contact and a newer primary one, and
\* the answer lists the newer one first
C25_Witness ==
    /\ lastOp.op = "listContacts"
    /\ Len(lastOp.data.data) = 2
    /\ contacts[lastOp.data.data[1]].createdAt
            > contacts[lastOp.data.data[2]].createdAt
    /\ contacts[lastOp.data.data[1]].isPrimary

----------------------------------------------------------------------------
\* SpecHistory: GET /emergency/alerts?limit=... while both users, each with
\* one SMS contact, activate alerts and the clock advances

InitHistory ==
    /\ InitStore(<<"smsOnly">>, <<"smsOnly">>)
    /\ mongoose \in MongooseMajors

ActivateHistory ==
    \E s \in Slots, u \in Users :
        /\ Arrives(s)
        /\ AlertsPlanned < MaxAlerts
        /\ ActLoad(s, u, "3.37", "6.52", Undefined)

ListHistoryAny ==
    \E s \in Slots, u \in Users, limit \in LimitInputs :
        Arrives(s) /\ ListHistory(s, u, limit)

NextHistory ==
    \/ ActivateHistory \/ ActCreateAny \/ ActFindUserAny \/ ActLocateAny
    \/ SmsSettlesAny \/ IncrementSavesAny \/ ActStoreAny
    \/ ListHistoryAny \/ Tick

SpecHistory == InitHistory /\ [][NextHistory]_vars

\* the limit the request asks for: the number given when it is a positive
\* number, otherwise 10
LimitAskedFor(v) ==
    IF v \in {"1", "2"} THEN ParseInt(v) ELSE DefaultLimit

\* C26: listHistory returns only the caller's alerts, most recent activation
\* first, and they are the first `limit` of the caller's alerts in that order,
\* where limit is 10 when the request's limit is absent or not a positive
\* number.
C26_HistoryFirstLimit ==
    lastOp.op = "listHistory" =>
        LET list == lastOp.data.data
            mine == {id \in DOMAIN alerts : alerts[id].user = lastOp.user}
            limit == LimitAskedFor(lastOp.in.limit)
        IN  /\ Range(list) \subseteq mine
            /\ \A i, j \in DOMAIN list : i < j =>
                  /\ list[i] # list[j]
                  /\ alerts[list[i]].activatedAt >= alerts[list[j]].activatedAt
            /\ Len(list) = IF Cardinality(mine) < limit
                           THEN Cardinality(mine) ELSE limit
            /\ \A a \in mine \ Range(list), b \in Range(list) :
                  alerts[a].activatedAt <= alerts[b].activatedAt

----------------------------------------------------------------------------
\* controllers/authController.js: register, and middleware/auth.js: protect,
\* which the emergency router runs before every handler (router.use(protect)).
\* The users table is keyed by UUID: accounts maps each id the table can hold
\* to "missing" (no row), "active" or "inactive" (is_active false).

\* a JSON web token: "signed" verifies, "expired" and "forged" make jwt.verify
\* throw; id is the user id of its payload
Tokens ==
    {[kind |-> "signed", id |-> "uuid-1"], [kind |-> "signed", id |-> "uuid-2"],
     [kind |-> "expired", id |-> "uuid-1"], [kind |-> "forged", id |-> "uuid-1"]}

\* no token: an absent cookie, nothing after the scheme
NoToken == [kind |-> "none", id |-> Undefined]

\* the Authorization header: absent, or a scheme and what follows the blank
Headers ==
    {[scheme |-> Undefined, token |-> NoToken],
     [scheme |-> "Bearer", token |-> NoToken],
     [scheme |-> "Basic", token |-> [kind |-> "signed", id |-> "uuid-1"]]}
    \cup {[scheme |-> "Bearer", token |-> t] : t \in Tokens}

\* req.cookies.token
Cookies ==
    {NoToken, [kind |-> "signed", id |-> "uuid-1"],
     [kind |-> "forged", id |-> "uuid-1"]}

AccountStates == {"active", "inactive", "missing"}

\* the token protect takes: the header's when it starts with 'Bearer', the
\* cookie's otherwise
ExtractToken(header, cookie) ==
    IF header.scheme = "Bearer" THEN header.token ELSE cookie

\* mutant: an expired token passes verification
TokenVerifiesExpired(t) == t.kind \in {"signed", "expired"}

\* jwt.verify(token, process.env.JWT_SECRET) returns the payload
TokenVerifies(t) == t.kind = "signed"

\* the credentials of a request, as the response record shows them
Credentials(header, cookie) == [header |-> header, cookie |-> cookie]

\* protect up to its select on the users table: no token and a token that
\* does not verify are answered 401
ProtectVerify(s, header, cookie) ==
    /\ LET token == ExtractToken(header, cookie)
           q == [FreeRequest EXCEPT !.op = "protect",
                                    !.body = Credentials(header, cookie)]
       IN  IF token = NoToken \/ ~TokenVerifies(token)
           THEN Answers(s, q, 401, "Refused", NoData)
           ELSE Goes(s, [q EXCEPT !.pc = "selecting", !.user = token.id])
    /\ UNCHANGED <<contacts, userContacts, alerts, userLoc, now, nextCid,
                   outside>>

\* the select settles: no row is answered 404, a row with is_active false
\* 403; otherwise the row becomes req.user and next() runs the route's handler
ProtectSelect(s) ==
    /\ At(s, "protect", "selecting")
    /\ LET q == reqs[s]
       IN  IF accounts[q.user] = "missing"
           THEN Answers(s, q, 404, "Refused", NoData)
           ELSE IF accounts[q.user] # "active"
           THEN Answers(s, q, 403, "Refused", NoData)
           ELSE Goes(s, [q EXCEPT !.pc = "next"])
    /\ UNCHANGED <<contacts, userContacts, alerts, userLoc, now, nextCid,
                   outside>>

\* slot s holds a request that protect passed on, for the user u it attached
Passed(s, u) == At(s, "protect", "next") /\ reqs[s].user = u

\* register up to its first insert: the body check, the select for a row
\* with the email or the phone, and the 400 when there is one
RegFind(s, u, complete) ==
    /\ LET q == [FreeRequest EXCEPT !.op = "register", !.user = u,
                                    !.body = [NoBody EXCEPT !.valid = complete]]
       IN  IF complete # "true"
           THEN Answers(s, q, 400, "MissingFields", NoData)
           ELSE IF accounts[u] # "missing"
           THEN Answers(s, q, 400, "Duplicate", NoData)
           ELSE Goes(s, [q EXCEPT !.pc = "salting"])
    /\ UNCHANGED <<contacts, userContacts, alerts, userLoc, now, nextCid,
                   outside>>

\* bcrypt.genSalt
RegSalt(s) ==
    /\ At(s, "register", "salting")
    /\ Goes(s, [reqs[s] EXCEPT !.pc = "hashing"])
    /\ UNCHANGED <<contacts, userContacts, alerts, userLoc, now, nextCid,
                   outside>>

\* bcrypt.hash
RegHash(s) ==
    /\ At(s, "register", "hashing")
    /\ Goes(s, [reqs[s] EXCEPT !.pc = "inserting"])
    /\ UNCHANGED <<contacts, userContacts, alerts, userLoc, now, nextCid,
                   outside>>

\* the insert: a row with the email or the phone, inserted since the select,
\* violates the unique constraints and is answered 500; otherwise the row is
\* there, with is_active at its default TRUE, and the answer is 201
RegInsert(s) ==
    /\ At(s, "register", "inserting")
    /\ LET q == reqs[s]
       IN  IF accounts[q.user] # "missing"
           THEN /\ Answers(s, q, 500, "ServerError", NoData)
                /\ UNCHANGED accounts
           ELSE /\ accounts' = [accounts EXCEPT ![q.user] = "active"]
                /\ Answers(s, q, 201, "none", NoData)
    /\ UNCHANGED <<contacts, userContacts, alerts, userLoc, now, nextCid,
                   panic, mongoose>>

----------------------------------------------------------------------------
\* SpecAuth: registrations, and requests to the emergency routes with every
\* header and cookie, for any state of the two accounts. The user protect
\* attaches is a row of the users table, whose id is a UUID.

InitAuth ==
    /\ InitCollections(<<"smsOnly">>, <<"smsOnly">>)
    /\ accounts \in [Uuids -> AccountStates]
    /\ panic = PanicIdle
    /\ reqs = [s \in Slots |-> FreeRequest]
    /\ mongoose = 4

ProtectAny ==
    \E s \in Slots, header \in Headers, cookie \in Cookies :
        Arrives(s) /\ ProtectVerify(s, header, cookie)

ProtectSelectAny == \E s \in Slots : ProtectSelect(s)

RegisterAny ==
    \E s \in Slots, u \in Uuids, complete \in {"true", "false"} :
        Arrives(s) /\ RegFind(s, u, complete)

RegSaltAny == \E s \in Slots : RegSalt(s)

RegHashAny == \E s \in Slots : RegHash(s)

RegInsertAny == \E s \in Slots : RegInsert(s)

\* the handlers of the emergency router, run by next()
ActivateNext ==
    \E s \in Slots, u \in Uuids, lon \in {Undefined, "3.37"} :
        Passed(s, u) /\ ActLoad(s, u, lon, "6.52", Undefined)

HistoryNext ==
    \E s \in Slots, u \in Uuids : Passed(s, u) /\ ListHistory(s, u, Undefined)

ActiveNext == \E s \in Slots, u \in Uuids : Passed(s, u) /\ ListActive(s, u)

ResolveNext ==
    \E s \in Slots, u \in Uuids, id \in AlertIds :
        Passed(s, u) /\ ResolveFind(s, u, id, "safe")

FalseAlarmNext ==
    \E s \in Slots, u \in Uuids, id \in AlertIds :
        Passed(s, u) /\ FalseAlarmFind(s, u, id)

AddNext ==
    \E s \in Slots, u \in Uuids, phone \in Phones :
        Passed(s, u) /\ AddFind(s, u, phone, Undefined, "true")

ContactsNext == \E s \in Slots, u \in Uuids : Passed(s, u) /\ ListContacts(s, u)

UpdateNext ==
    \E s \in Slots, u \in Uuids, id \in ContactIds, patch \in OwnerPatches :
        Passed(s, u) /\ UpdateFind(s, u, id, patch)

DeleteNext ==
    \E s \in Slots, u \in Uuids, id \in ContactIds :
        Passed(s, u) /\ DeleteFind(s, u, id)

\* The id protect attaches never casts to an ObjectId, so every handler is
\* answered by its first action and the later steps of the handlers are never
\* enabled here.
NextAuth ==
    \/ ProtectAny \/ ProtectSelectAny
    \/ RegisterAny \/ RegSaltAny \/ RegHashAny \/ RegInsertAny
    \/ ActivateNext \/ HistoryNext \/ ActiveNext \/ ResolveNext
    \/ FalseAlarmNext \/ AddNext \/ ContactsNext \/ UpdateNext \/ DeleteNext

SpecAuth == InitAuth /\ [][NextAuth]_vars


----------------------------------------------------------------------------
\* Properties of the authentication middleware (checked under SpecAuth)

\* the handlers of the emergency router
HandlerOps ==
    {"activate", "resolve", "falseAlarm", "addContact", "updateContact",
     "deleteContact", "listHistory", "listActive", "listContacts"}

Collections == <<contacts, userContacts, alerts, userLoc, nextCid>>

\* C16: a request without a token, or with a token that does not verify, is
\* answered 401 by protect before anything else runs; protect goes on to its
\* select only for a token that verifies, with the id of the token; from the
\* select it calls next() exactly when the row is there and active, and it
\* answers a deactivated account 403; a handler runs only for a request that
\* protect passed on, for the user it attached, whose account is active; and
\* protect itself writes nothing to the collections.
C16_ProtectGuardsHandlers ==
    [][/\ AnswersAtOnce("protect") =>
            /\ lastOp'.status = 401
            /\ ExtractToken(lastOp'.in.header, lastOp'.in.cookie).kind # "signed"
       /\ \A s \in Slots :
            /\ Passes(s, "protect") =>
                LET token == ExtractToken(reqs'[s].body.header,
                                          reqs'[s].body.cookie)
                IN  /\ token.kind = "signed"
                    /\ reqs'[s].user = token.id
                    /\ reqs'[s].pc = "selecting"
            /\ (At(s, "protect", "selecting") /\ reqs'[s] # reqs[s]) =>
                /\ reqs'[s].pc = "next" <=> accounts[reqs[s].user] = "active"
                /\ reqs'[s].pc = "next" => reqs'[s].user = reqs[s].user
                /\ accounts[reqs[s].user] = "inactive" =>
                        lastOp'.op = "protect" /\ lastOp'.status = 403
                /\ accounts[reqs[s].user] = "missing" =>
                        lastOp'.op = "protect" /\ lastOp'.status = 404
            /\ (reqs'[s].op \in HandlerOps /\ reqs[s].op \notin HandlerOps) =>
                At(s, "protect", "next")
       /\ lastOp'.op \in HandlerOps =>
            \E s \in Slots :
                /\ reqs'[s] # reqs[s]
                /\ reqs[s].op \in HandlerOps \/ At(s, "protect", "next")
                /\ lastOp'.user = reqs[s].user
                /\ accounts[lastOp'.user] = "active"
       /\ lastOp'.op = "protect" \/ \E s \in Slots : reqs'[s].op = "protect"
                                                     /\ reqs'[s] # reqs[s]
            => UNCHANGED Collections
      ]_vars

\* a request with an expired Bearer token and a good cookie has just been
\* answered 401 while another request, passed on by protect, waits for its
\* handler
C16_Witness ==
    /\ lastOp.op = "protect"
    /\ lastOp.status = 401
    /\ lastOp.in.header.scheme = "Bearer"
    /\ lastOp.in.header.token.kind = "expired"
    /\ lastOp.in.cookie.kind = "signed"
    /\ \E s \in Slots : At(s, "protect", "next")

----------------------------------------------------------------------------
\* SpecPanic: the panic button of the page under every sequence of press and
\* release events, timer callbacks, clicks on the buttons of a confirmation
\* and answers to its requests

InitPanic == InitStore(<<>>, <<>>) /\ mongoose = 4

NextPanic ==
    \/ startHold
    \/ cancelHold
    \/ CountdownTickAny
    \/ HoldFiresAny
    \/ FetchSettlesAny
    \/ JsonSettlesAny
    \/ ResetFiresAny
    \/ CloseFiresAny
    \/ CloseClicked
    \/ callEmergencyAny
    \/ Elapse

SpecPanic == InitPanic /\ [][NextPanic]_vars

PendingHolds(p) == {t \in DOMAIN p.timers : p.timers[t].kind = "hold"}

\* C24: activatePanic runs only when no release came since the press that set
\* its timer, and after a release no hold timer and no countdown interval is
\* pending.
C24_ActivationOnlyAfterFullHold ==
    [][/\ lastOp'.op = "activatePanic" => ~panic.timers[lastOp'.target].released
       /\ lastOp'.op = "release" =>
            /\ PendingHolds(panic') = {}
            /\ DOMAIN panic'.intervals = {}
      ]_vars

\* C28: the button shows 'ALERT SENT!' and the confirmation is shown only when
\* the server accepted the panic alert: the step that sets the label or adds
\* the confirmation is the arrival of an accepting answer.
C28_ConfirmationOnlyWhenAccepted ==
    [][(\/ panic'.overlays > panic.overlays
        \/ panic'.label = "ALERT SENT!" /\ panic.label # "ALERT SENT!")
            => (lastOp'.op = "sendSettled" /\ lastOp'.status = 201)
      ]_vars

\* C30: at most one panic request is in flight at a time.
C30_OneRequestInFlight == panic.fetches <= 1
====
